---- MODULE Spec2Model ----
(***************************************************************************)
(* Accounting core of the bookkeeping backend: the journal service         *)
(* (posting, update, void, reversal), the balance and trial-balance        *)
(* computations of the report service, and account deactivation.           *)
(*                                                                         *)
(* Money is counted in integer units; UnitsPerCent units make 0.01, so the *)
(* 0.01 tolerance of the code is UnitsPerCent units and sub-cent amounts   *)
(* (which the number-typed inputs admit) are representable.                *)
(***************************************************************************)
EXTENDS Integers, Sequences, FiniteSets, TLC

VARIABLES
    accounts,            \* table Account: id -> row
    journalEntry,        \* table JournalEntry: sequence of rows, index = id
    journalLine,         \* table JournalLine: per entry id, its line rows
    lastOp,              \* the service method that returned last
    lastError,           \* what it threw ("none" when it returned normally)
    uniqueEntryNumber,   \* whether the store rejects a duplicate (companyId, entryNumber)
    inflight,            \* concurrent requests: process -> call frame
    aging                \* the aging report being built: its inputs, buckets and bucket index

vars == <<accounts, journalEntry, journalLine, lastOp, lastError, uniqueEntryNumber, inflight,
          aging>>

db == <<accounts, journalEntry, journalLine>>

----------------------------------------------------------------------------
(* Bounds of the model *)

MaxEntries == 2
MaxAmount == 1
MaxDate == 2
UnitsPerCent == 2
OpeningCash == 4
TicksPerDay == 2
MaxAccounts == 3
MaxPeriod == 3
MaxPeriods == 3
MaxWalk == 4

Dates == 1..MaxDate

----------------------------------------------------------------------------
(* Enumerations and rows *)

AccountType == {"ASSET", "LIABILITY", "EQUITY", "REVENUE", "EXPENSE"}

JournalSource == {"MANUAL", "INVOICE", "BILL", "CUSTOMER_PAYMENT", "BILL_PAYMENT", "BANK_IMPORT"}

Companies == {"T1", "T2"}

AccountIds == {"acc1", "acc2", "acc3"}

NoEntry == 0

\* parentId: null
NoParent == "null"

\* The row written by account.create: isActive and isSystemAccount take
\* their column defaults.
Account(companyId, type, openingBalance) ==
    [companyId |-> companyId, code |-> "0000", type |-> type, subType |-> "OTHER_ASSET",
     parentId |-> NoParent, isActive |-> TRUE,
     isSystemAccount |-> FALSE, openingBalance |-> openingBalance]

Line(accountId, debit, credit) ==
    [accountId |-> accountId, debit |-> debit, credit |-> credit]

Abs(x) == IF x < 0 THEN -x ELSE x

Max(a, b) == IF a >= b THEN a ELSE b

\* lines.reduce((sum, line) => sum + (line[field] || 0), 0)
RECURSIVE SumField(_, _)
SumField(lines, field) ==
    IF lines = <<>> THEN 0
    ELSE Head(lines)[field] + SumField(Tail(lines), field)

----------------------------------------------------------------------------
(* Bounds, continued: a Date is an instant, TicksPerDay instants make a day *)

\* result.setDate(result.getDate() + days)
addDays(date, days) == date + days * TicksPerDay

----------------------------------------------------------------------------
(* JournalService: validation *)

Tolerance == UnitsPerCent

\* Math.abs(totalDebit - totalCredit) >= 0.01
OutOfBalanceLax(totalDebit, totalCredit) == Abs(totalDebit - totalCredit) > Tolerance

OutOfBalance(totalDebit, totalCredit) == Abs(totalDebit - totalCredit) >= Tolerance

\* Returns the error thrown, "none" when the lines pass.
validateDoubleEntry(lines) ==
    LET totalDebit == SumField(lines, "debit")
        totalCredit == SumField(lines, "credit")
        both(i) == lines[i].debit > 0 /\ lines[i].credit > 0
        neither(i) == lines[i].debit = 0 /\ lines[i].credit = 0
        bad == {i \in 1..Len(lines) : both(i) \/ neither(i)}
    IN  IF OutOfBalance(totalDebit, totalCredit) THEN "DebitsMustEqualCredits"
        ELSE IF bad = {} THEN "none"
        ELSE LET first == CHOOSE i \in bad : \A j \in bad : i <= j
             IN  IF both(first) THEN "BothDebitAndCredit" ELSE "NeitherDebitNorCredit"

\* Returns the error thrown, "none" when every account is the company's and active.
validateAccounts(companyId, lines) ==
    LET accountIds == {lines[i].accountId : i \in 1..Len(lines)}
        found == {a \in accountIds \cap DOMAIN accounts : accounts[a].companyId = companyId}
    IN  IF Cardinality(found) # Cardinality(accountIds) THEN "AccountsNotFound"
        ELSE IF \E a \in found : ~accounts[a].isActive THEN "AccountInactive"
        ELSE "none"

----------------------------------------------------------------------------
(* JournalService: store access *)

\* findFirst({where: {companyId}, orderBy: {entryNumber: 'desc'}}) then
\* (lastEntry?.entryNumber || 0) + 1
NextEntryNumberAnyCompany(companyId) == Len(journalEntry) + 1

NextEntryNumber(companyId) ==
    LET numbers == {journalEntry[i].entryNumber :
                        i \in {j \in 1..Len(journalEntry) : journalEntry[j].companyId = companyId}}
    IN  IF numbers = {} THEN 1
        ELSE (CHOOSE n \in numbers : \A m \in numbers : m <= n) + 1

\* findFirst({where: {id: entryId, companyId}})
FindEntryAnyCompany(companyId, entryId) ==
    IF entryId \in 1..Len(journalEntry) THEN entryId ELSE NoEntry

FindEntry(companyId, entryId) ==
    IF entryId \in 1..Len(journalEntry) /\ journalEntry[entryId].companyId = companyId
    THEN entryId ELSE NoEntry

\* Column defaults of the JournalEntry table: an entry is posted unless voided.
DefaultIsPosted == TRUE
DefaultIsReversing == FALSE

\* data: {companyId, entryNumber, date, source, ...} of journalEntry.create
NewEntry(companyId, entryNumber, date, source) ==
    [companyId |-> companyId, entryNumber |-> entryNumber, date |-> date,
     source |-> source, isPosted |-> DefaultIsPosted, isReversing |-> DefaultIsReversing,
     reversedEntryId |-> NoEntry]

\* data: {companyId, entryNumber, date: reverseDate, source: MANUAL, isReversing: true, reversedEntryId}
ReversingEntryUnlinked(companyId, entryNumber, reverseDate, id) ==
    [NewEntry(companyId, entryNumber, reverseDate, "MANUAL") EXCEPT !.isReversing = TRUE]

ReversingEntry(companyId, entryNumber, reverseDate, id) ==
    [NewEntry(companyId, entryNumber, reverseDate, "MANUAL")
        EXCEPT !.isReversing = TRUE, !.reversedEntryId = id]

\* lines: {create: lines.map(line => ({accountId, debit: line.debit || 0, credit: line.credit || 0}))}
NestedCreateDropsLast(lines) ==
    [i \in 1..(Len(lines) - 1) |-> Line(lines[i].accountId, lines[i].debit, lines[i].credit)]

NestedCreate(lines) ==
    [i \in 1..Len(lines) |-> Line(lines[i].accountId, lines[i].debit, lines[i].credit)]

\* entry.lines.map(line => ({accountId, debit: credit, credit: debit}))
SwapKeepsSides(lines) ==
    [i \in 1..Len(lines) |-> Line(lines[i].accountId, lines[i].debit, lines[i].credit)]

SwapDebitCredit(lines) ==
    [i \in 1..Len(lines) |-> Line(lines[i].accountId, lines[i].credit, lines[i].debit)]

\* lines: {deleteMany: {}, create: input.lines.map(...)} of journalEntry.update
ReplaceLinesKeepsOld(old, new) == old \o NestedCreate(new)

ReplaceLines(old, new) == NestedCreate(new)

\* entry.source !== JournalSource.MANUAL guards update and void
ManualOrInvoice(source) == source \in {"MANUAL", "INVOICE"}

IsManual(source) == source = "MANUAL"

Returned(op, error) == lastOp' = op /\ lastError' = error

\* Unique index on (companyId, entryNumber), where the store has one.
CreateConflicts(row) ==
    /\ uniqueEntryNumber
    /\ \E i \in 1..Len(journalEntry) :
           /\ journalEntry[i].companyId = row.companyId
           /\ journalEntry[i].entryNumber = row.entryNumber

\* Foreign key JournalLine.accountId -> Account.id
MissingAccount(lines) == \E i \in 1..Len(lines) : lines[i].accountId \notin DOMAIN accounts

\* What prisma.journalEntry.create throws for this row and these lines.
CreateError(row, lines) ==
    IF CreateConflicts(row) THEN "UniqueConstraintViolation"
    ELSE IF MissingAccount(lines) THEN "ForeignKeyViolation"
    ELSE "none"

\* prisma.journalEntry.create({data: {..., lines: {create: [...]}}}): the
\* entry row and its line rows are written by one nested write.
InsertEntry(row, lines) ==
    /\ journalEntry' = Append(journalEntry, row)
    /\ journalLine' = Append(journalLine, lines)

----------------------------------------------------------------------------
(* JournalService: operations, one request at a time *)

createJournalEntry(companyId, date, lines) ==
    LET doubleEntry == validateDoubleEntry(lines)
        known == validateAccounts(companyId, lines)
        row == NewEntry(companyId, NextEntryNumber(companyId), date, "MANUAL")
        rows == NestedCreate(lines)
    IN  /\ UNCHANGED <<accounts, uniqueEntryNumber, aging, inflight>>
        /\ IF doubleEntry # "none"
           THEN Returned("createJournalEntry", doubleEntry) /\ UNCHANGED <<journalEntry, journalLine>>
           ELSE IF known # "none"
           THEN Returned("createJournalEntry", known) /\ UNCHANGED <<journalEntry, journalLine>>
           ELSE IF CreateError(row, rows) # "none"
           THEN Returned("createJournalEntry", CreateError(row, rows))
                /\ UNCHANGED <<journalEntry, journalLine>>
           ELSE /\ Len(journalEntry) < MaxEntries
                /\ InsertEntry(row, rows)
                /\ Returned("createJournalEntry", "none")

createFromTransaction(companyId, date, source, lines) ==
    LET doubleEntry == validateDoubleEntry(lines)
        row == NewEntry(companyId, NextEntryNumber(companyId), date, source)
        rows == NestedCreate(lines)
    IN  /\ UNCHANGED <<accounts, uniqueEntryNumber, aging, inflight>>
        /\ IF doubleEntry # "none"
           THEN Returned("createFromTransaction", doubleEntry) /\ UNCHANGED <<journalEntry, journalLine>>
           ELSE IF CreateError(row, rows) # "none"
           THEN Returned("createFromTransaction", CreateError(row, rows))
                /\ UNCHANGED <<journalEntry, journalLine>>
           ELSE /\ Len(journalEntry) < MaxEntries
                /\ InsertEntry(row, rows)
                /\ Returned("createFromTransaction", "none")

\* input.date = NoDate and input.lines = NoLines stand for undefined.
NoDate == 0
NoLines == <<>>

updateJournalEntry(companyId, entryId, input) ==
    LET id == FindEntry(companyId, entryId)
        doubleEntry == IF input.lines # NoLines THEN validateDoubleEntry(input.lines) ELSE "none"
        known == IF input.lines # NoLines THEN validateAccounts(companyId, input.lines) ELSE "none"
    IN  /\ UNCHANGED <<accounts, uniqueEntryNumber, aging, inflight>>
        /\ IF id = NoEntry
           THEN Returned("updateJournalEntry", "JournalEntryNotFound")
                /\ UNCHANGED <<journalEntry, journalLine>>
           ELSE IF ~IsManual(journalEntry[id].source)
           THEN Returned("updateJournalEntry", "OnlyManualEdited")
                /\ UNCHANGED <<journalEntry, journalLine>>
           ELSE IF doubleEntry # "none"
           THEN Returned("updateJournalEntry", doubleEntry) /\ UNCHANGED <<journalEntry, journalLine>>
           ELSE IF known # "none"
           THEN Returned("updateJournalEntry", known) /\ UNCHANGED <<journalEntry, journalLine>>
           ELSE /\ journalEntry' = [journalEntry EXCEPT ![id].date =
                                        IF input.date # NoDate THEN input.date ELSE @]
                /\ journalLine' = [journalLine EXCEPT ![id] =
                                        IF input.lines # NoLines THEN ReplaceLines(@, input.lines) ELSE @]
                /\ Returned("updateJournalEntry", "none")

voidJournalEntry(companyId, entryId) ==
    LET id == FindEntry(companyId, entryId)
    IN  /\ UNCHANGED <<accounts, journalLine, uniqueEntryNumber, aging, inflight>>
        /\ IF id = NoEntry
           THEN Returned("voidJournalEntry", "JournalEntryNotFound") /\ UNCHANGED journalEntry
           ELSE IF ~IsManual(journalEntry[id].source)
           THEN Returned("voidJournalEntry", "OnlyManualVoided") /\ UNCHANGED journalEntry
           ELSE /\ journalEntry' = [journalEntry EXCEPT ![id].isPosted = FALSE]
                /\ Returned("voidJournalEntry", "none")

reverseJournalEntry(companyId, entryId, reverseDate) ==
    LET id == FindEntry(companyId, entryId)
        row == ReversingEntry(companyId, NextEntryNumber(companyId), reverseDate, id)
    IN  /\ UNCHANGED <<accounts, uniqueEntryNumber, aging, inflight>>
        /\ IF id = NoEntry
           THEN Returned("reverseJournalEntry", "JournalEntryNotFound")
                /\ UNCHANGED <<journalEntry, journalLine>>
           ELSE IF CreateError(row, journalLine[id]) # "none"
           THEN Returned("reverseJournalEntry", CreateError(row, journalLine[id]))
                /\ UNCHANGED <<journalEntry, journalLine>>
           ELSE /\ Len(journalEntry) < MaxEntries
                /\ InsertEntry(row, SwapDebitCredit(journalLine[id]))
                /\ Returned("reverseJournalEntry", "none")

\* Read of one entry: findFirst({where: {id: entryId, companyId}}), NotFound when absent.
getJournalEntry(companyId, entryId) ==
    /\ UNCHANGED <<accounts, journalEntry, journalLine, uniqueEntryNumber, aging, inflight>>
    /\ IF FindEntry(companyId, entryId) = NoEntry
       THEN Returned("getJournalEntry", "JournalEntryNotFound")
       ELSE Returned("getJournalEntry", "none")

----------------------------------------------------------------------------
(* AccountService *)

\* Some account names this one as its parent.
HasChildren(accountId) == \E a \in DOMAIN accounts : accounts[a].parentId = accountId

\* account.delete of a row that children refer to, where the self-relation
\* lets the delete through: the children lose their parent.
DeleteOrphaning(accountId) ==
    [a \in DOMAIN accounts \ {accountId} |->
        IF accounts[a].parentId = accountId
        THEN [accounts[a] EXCEPT !.parentId = NoParent] ELSE accounts[a]]

FindAccount(companyId, accountId) ==
    accountId \in DOMAIN accounts /\ accounts[accountId].companyId = companyId

\* findUnique({where: {companyId_code: {companyId, code}}})
CodeTaken(companyId, code) ==
    \E a \in DOMAIN accounts : accounts[a].companyId = companyId /\ accounts[a].code = code

ChartAccountSeq == <<"acc1", "acc2", "acc3", "acc4">>

ChartAccountIds == {ChartAccountSeq[i] : i \in 1..Len(ChartAccountSeq)}

\* The ids the store generates for new rows: ids no row carries.
IsFresh(id) == id \notin DOMAIN accounts

FreshIds == SelectSeq(ChartAccountSeq, IsFresh)

createAccount(companyId, input) ==
    LET row == [Account(companyId, input.type, 0)
                    EXCEPT !.code = input.code, !.subType = input.subType,
                           !.parentId = input.parentId]
    IN  /\ UNCHANGED <<journalEntry, journalLine, uniqueEntryNumber, aging, inflight>>
        /\ IF CodeTaken(companyId, input.code)
           THEN Returned("createAccount", "AccountCodeExists") /\ UNCHANGED accounts
           ELSE IF input.parentId # NoParent /\ ~FindAccount(companyId, input.parentId)
           THEN Returned("createAccount", "ParentNotFound") /\ UNCHANGED accounts
           ELSE IF input.parentId # NoParent /\ accounts[input.parentId].type # input.type
           THEN Returned("createAccount", "ParentTypeMismatch") /\ UNCHANGED accounts
           ELSE /\ Cardinality(DOMAIN accounts) < MaxAccounts
                /\ FreshIds # <<>>
                /\ accounts' = [a \in DOMAIN accounts \cup {FreshIds[1]} |->
                                    IF a = FreshIds[1] THEN row ELSE accounts[a]]
                /\ Returned("createAccount", "none")

\* A field the request body leaves out.
Undefined == "undefined"

\* let currentParent = parent; while (currentParent.parentId) {...}: the
\* walk from the proposed parent is "circular" when it meets accountId, ends
\* at a "root" (or at a parent that is not stored), and is "endless" when it
\* is still walking after as many steps as there are accounts.
RECURSIVE Walk(_, _, _)
WalkToRoot(currentParent, accountId, fuel) == "root"

Walk(currentParent, accountId, fuel) ==
    IF accounts[currentParent].parentId = NoParent THEN "root"
    ELSE IF accounts[currentParent].parentId = accountId THEN "circular"
    ELSE IF accounts[currentParent].parentId \notin DOMAIN accounts THEN "root"
    ELSE IF fuel = 0 THEN "endless"
    ELSE Walk(accounts[currentParent].parentId, accountId, fuel - 1)

\* input.code || input.isActive === false
ModifiesCodeOnly(input) == input.code # Undefined

ModifiesKeyProperties(input) == input.code # Undefined \/ input.isActive = "false"

updateAccount(companyId, accountId, input) ==
    LET account == accounts[accountId]
        reparents == input.parentId \notin {Undefined, NoParent}
        walk == Walk(input.parentId, accountId, Cardinality(DOMAIN accounts))
    IN  /\ UNCHANGED <<journalEntry, journalLine, uniqueEntryNumber, aging, inflight>>
        /\ IF ~FindAccount(companyId, accountId)
           THEN Returned("updateAccount", "AccountNotFound") /\ UNCHANGED accounts
           ELSE IF account.isSystemAccount /\ ModifiesKeyProperties(input)
           THEN Returned("updateAccount", "CannotModifySystemAccount") /\ UNCHANGED accounts
           ELSE IF /\ input.code # Undefined /\ input.code # account.code
                   /\ CodeTaken(companyId, input.code)
           THEN Returned("updateAccount", "AccountCodeExists") /\ UNCHANGED accounts
           ELSE IF reparents /\ input.parentId = accountId
           THEN Returned("updateAccount", "OwnParent") /\ UNCHANGED accounts
           ELSE IF reparents /\ ~FindAccount(companyId, input.parentId)
           THEN Returned("updateAccount", "ParentNotFound") /\ UNCHANGED accounts
           ELSE IF reparents /\ accounts[input.parentId].type # account.type
           THEN Returned("updateAccount", "ParentTypeMismatch") /\ UNCHANGED accounts
           ELSE IF reparents /\ walk = "circular"
           THEN Returned("updateAccount", "CircularParent") /\ UNCHANGED accounts
           ELSE /\ reparents => walk # "endless"
                /\ accounts' = [accounts EXCEPT ![accountId] =
                        [@ EXCEPT !.code = IF input.code # Undefined THEN input.code ELSE @,
                                  !.parentId = IF input.parentId # Undefined
                                               THEN input.parentId ELSE @,
                                  !.isActive = IF input.isActive = Undefined THEN @
                                               ELSE input.isActive = "true"]]
                /\ Returned("updateAccount", "none")

\* Rows of defaultChartOfAccounts.service kept here: code 1000 (Cash), 3000
\* (Owner's Equity) and 3900 (Opening Balance Equity), all three system accounts.
defaultChartOfAccounts ==
    <<[code |-> "1000", type |-> "ASSET", subType |-> "CASH", isSystemAccount |-> TRUE],
      [code |-> "3000", type |-> "EQUITY", subType |-> "OWNERS_EQUITY", isSystemAccount |-> TRUE],
      [code |-> "3900", type |-> "EQUITY", subType |-> "OWNERS_EQUITY", isSystemAccount |-> TRUE]>>

importDefaultChart(companyId) ==
    LET n == Len(defaultChartOfAccounts)
        existingCount == Cardinality({a \in DOMAIN accounts : accounts[a].companyId = companyId})
        row(i) == [Account(companyId, defaultChartOfAccounts[i].type, 0)
                      EXCEPT !.code = defaultChartOfAccounts[i].code,
                             !.subType = defaultChartOfAccounts[i].subType,
                             !.isSystemAccount = defaultChartOfAccounts[i].isSystemAccount]
    IN  /\ UNCHANGED <<journalEntry, journalLine, uniqueEntryNumber, aging, inflight>>
        /\ IF existingCount > 0
           THEN Returned("importDefaultChart", "CompanyAlreadyHasAccounts") /\ UNCHANGED accounts
           ELSE /\ Cardinality(DOMAIN accounts) + n <= MaxAccounts
                /\ Len(FreshIds) >= n
                /\ accounts' = [a \in DOMAIN accounts \cup {FreshIds[i] : i \in 1..n} |->
                                    IF a \in DOMAIN accounts THEN accounts[a]
                                    ELSE row(CHOOSE i \in 1..n : FreshIds[i] = a)]
                /\ Returned("importDefaultChart", "none")

\* findFirst({where: {companyId, subType, isSystemAccount: true}}) has no
\* orderBy: the rows it can return. NotFound when there is none.
getSystemAccount(companyId, subType) ==
    {a \in DOMAIN accounts : /\ accounts[a].companyId = companyId
                             /\ accounts[a].subType = subType
                             /\ accounts[a].isSystemAccount}

\* prisma.journalLine.findFirst({where: {accountId}})
HasPostedTransactions(accountId) ==
    \E e \in 1..Len(journalLine) : \E i \in 1..Len(journalLine[e]) :
        journalLine[e][i].accountId = accountId /\ journalEntry[e].isPosted

HasTransactions(accountId) ==
    \E e \in 1..Len(journalLine) : \E i \in 1..Len(journalLine[e]) :
        journalLine[e][i].accountId = accountId

deactivateAccount(companyId, accountId) ==
    LET found == accountId \in DOMAIN accounts /\ accounts[accountId].companyId = companyId
        hasTransactions == HasTransactions(accountId)
    IN  /\ UNCHANGED <<journalEntry, journalLine, uniqueEntryNumber, aging, inflight>>
        /\ IF ~found
           THEN Returned("deactivateAccount", "AccountNotFound") /\ UNCHANGED accounts
           ELSE IF accounts[accountId].isSystemAccount
           THEN Returned("deactivateAccount", "CannotDeactivateSystemAccount") /\ UNCHANGED accounts
           ELSE IF hasTransactions
           THEN /\ accounts' = [accounts EXCEPT ![accountId].isActive = FALSE]
                /\ Returned("deactivateAccount", "none")
           ELSE IF HasChildren(accountId)
           THEN \/ Returned("deactivateAccount", "ForeignKeyViolation") /\ UNCHANGED accounts
                \/ /\ accounts' = DeleteOrphaning(accountId)
                   /\ Returned("deactivateAccount", "none")
           ELSE /\ accounts' = [a \in DOMAIN accounts \ {accountId} |-> accounts[a]]
                /\ Returned("deactivateAccount", "none")

----------------------------------------------------------------------------
(* ReportService *)

\* Keys of the JournalLine rows: <<entry id, position>>.
LineRows == UNION {{<<e, i>> : i \in 1..Len(journalLine[e])} : e \in 1..Len(journalLine)}

\* where: {accountId, journalEntry: {isPosted: true, date: {lte: asOfDate}}}
PostedAsOfAnyStatus(accountId, asOfDate) ==
    {r \in LineRows : /\ journalLine[r[1]][r[2]].accountId = accountId
                      /\ journalEntry[r[1]].date <= asOfDate}

PostedAsOf(accountId, asOfDate) ==
    {r \in LineRows : /\ journalLine[r[1]][r[2]].accountId = accountId
                      /\ journalEntry[r[1]].isPosted
                      /\ journalEntry[r[1]].date <= asOfDate}

RECURSIVE SumRows(_, _)
SumRows(rows, field) ==
    IF rows = {} THEN 0
    ELSE LET r == CHOOSE x \in rows : TRUE
         IN  journalLine[r[1]][r[2]][field] + SumRows(rows \ {r}, field)

\* aggregate({_sum: {debit, credit}}): null over no rows
AggregateSum(rows, field) ==
    IF rows = {} THEN [isNull |-> TRUE, value |-> 0]
    ELSE [isNull |-> FALSE, value |-> SumRows(rows, field)]

decimalToNumber(value) == IF value.isNull THEN 0 ELSE value.value

calculateAccountBalanceAsOf(accountId, type, asOfDate) ==
    LET openingBalance == IF accountId \in DOMAIN accounts
                          THEN accounts[accountId].openingBalance ELSE 0
        rows == PostedAsOf(accountId, asOfDate)
        debits == decimalToNumber(AggregateSum(rows, "debit"))
        credits == decimalToNumber(AggregateSum(rows, "credit"))
    IN  IF type \in {"ASSET", "EXPENSE"}
        THEN openingBalance + debits - credits
        ELSE openingBalance + credits - debits

\* debit: isDebitNormal && balance > 0 ? balance : !isDebitNormal && balance < 0 ? -balance : 0
DebitColumnNoReclass(isDebitNormal, balance) ==
    IF isDebitNormal /\ balance > 0 THEN balance ELSE 0

DebitColumn(isDebitNormal, balance) ==
    IF isDebitNormal /\ balance > 0 THEN balance
    ELSE IF ~isDebitNormal /\ balance < 0 THEN -balance ELSE 0

\* credit: !isDebitNormal && balance > 0 ? balance : isDebitNormal && balance < 0 ? -balance : 0
CreditColumnNoReclass(isDebitNormal, balance) ==
    IF ~isDebitNormal /\ balance > 0 THEN balance ELSE 0

CreditColumn(isDebitNormal, balance) ==
    IF ~isDebitNormal /\ balance > 0 THEN balance
    ELSE IF isDebitNormal /\ balance < 0 THEN -balance ELSE 0

RECURSIVE SumOver(_, _)
SumOver(set, f) ==
    IF set = {} THEN 0
    ELSE LET x == CHOOSE y \in set : TRUE IN f[x] + SumOver(set \ {x}, f)

getTrialBalance(companyId, asOfDate) ==
    LET active == {a \in DOMAIN accounts :
                        accounts[a].companyId = companyId /\ accounts[a].isActive}
        balance == [a \in active |-> calculateAccountBalanceAsOf(a, accounts[a].type, asOfDate)]
        isDebitNormal == [a \in active |-> accounts[a].type \in {"ASSET", "EXPENSE"}]
        debit == [a \in active |-> DebitColumn(isDebitNormal[a], balance[a])]
        credit == [a \in active |-> CreditColumn(isDebitNormal[a], balance[a])]
        nonZeroBalances == {a \in active : debit[a] > 0 \/ credit[a] > 0}
        totalDebits == SumOver(nonZeroBalances, debit)
        totalCredits == SumOver(nonZeroBalances, credit)
    IN  [accounts |-> nonZeroBalances, debit |-> debit, credit |-> credit,
         totalDebits |-> totalDebits, totalCredits |-> totalCredits,
         isBalanced |-> Abs(totalDebits - totalCredits) < Tolerance]

\* findMany({where: {companyId, type, isActive: true}}) and, per account,
\* calculateAccountBalanceAsOf: the accounts listed and their balances.
getAccountBalancesAsOf(companyId, type, asOfDate) ==
    LET listed == {a \in DOMAIN accounts : /\ accounts[a].companyId = companyId
                                           /\ accounts[a].type = type
                                           /\ accounts[a].isActive}
    IN  [a \in listed |-> calculateAccountBalanceAsOf(a, accounts[a].type, asOfDate)]

\* where: {account: {companyId, type}, journalEntry: {isPosted: true, date: {lte: asOfDate}}}
PostedOfTypeAsOf(companyId, type, asOfDate) ==
    {r \in LineRows : /\ journalLine[r[1]][r[2]].accountId \in DOMAIN accounts
                      /\ accounts[journalLine[r[1]][r[2]].accountId].companyId = companyId
                      /\ accounts[journalLine[r[1]][r[2]].accountId].type = type
                      /\ journalEntry[r[1]].isPosted
                      /\ journalEntry[r[1]].date <= asOfDate}

calculateRetainedEarnings(companyId, asOfDate) ==
    LET revenueRows == PostedOfTypeAsOf(companyId, "REVENUE", asOfDate)
        expenseRows == PostedOfTypeAsOf(companyId, "EXPENSE", asOfDate)
        revenue == decimalToNumber(AggregateSum(revenueRows, "credit"))
                     - decimalToNumber(AggregateSum(revenueRows, "debit"))
        expenses == decimalToNumber(AggregateSum(expenseRows, "debit"))
                      - decimalToNumber(AggregateSum(expenseRows, "credit"))
    IN  revenue - expenses

getBalanceSheet(companyId, asOfDate) ==
    LET assets == getAccountBalancesAsOf(companyId, "ASSET", asOfDate)
        liabilities == getAccountBalancesAsOf(companyId, "LIABILITY", asOfDate)
        equity == getAccountBalancesAsOf(companyId, "EQUITY", asOfDate)
        retainedEarnings == calculateRetainedEarnings(companyId, asOfDate)
        totalAssets == SumOver(DOMAIN assets, assets)
        totalLiabilities == SumOver(DOMAIN liabilities, liabilities)
        totalEquity == SumOver(DOMAIN equity, equity) + retainedEarnings
    IN  [assets |-> assets, liabilities |-> liabilities, equity |-> equity,
         retainedEarnings |-> retainedEarnings,
         totalAssets |-> totalAssets, totalLiabilities |-> totalLiabilities,
         totalEquity |-> totalEquity,
         totalLiabilitiesAndEquity |-> totalLiabilities + totalEquity]

\* where.id = accountId when the optional accountId is given
NoAccount == "none"

\* where: {accountId, journalEntry: {isPosted: true, date: {gte: startDate, lte: endDate}}}
PostedInRangeNoStart(accountId, startDate, endDate) ==
    {r \in LineRows : /\ journalLine[r[1]][r[2]].accountId = accountId
                      /\ journalEntry[r[1]].isPosted
                      /\ journalEntry[r[1]].date <= endDate}

PostedInRange(accountId, startDate, endDate) ==
    {r \in LineRows : /\ journalLine[r[1]][r[2]].accountId = accountId
                      /\ journalEntry[r[1]].isPosted
                      /\ journalEntry[r[1]].date >= startDate
                      /\ journalEntry[r[1]].date <= endDate}

\* findMany({where: {companyId, type, isActive: true}}) and, per account, the
\* aggregate over its posted lines dated in the range: credits - debits for
\* REVENUE, LIABILITY and EQUITY, debits - credits otherwise.
getAccountBalances(companyId, type, startDate, endDate) ==
    LET listed == {a \in DOMAIN accounts : /\ accounts[a].companyId = companyId
                                           /\ accounts[a].type = type
                                           /\ accounts[a].isActive}
        debits(a) == decimalToNumber(AggregateSum(PostedInRange(a, startDate, endDate), "debit"))
        credits(a) == decimalToNumber(AggregateSum(PostedInRange(a, startDate, endDate), "credit"))
    IN  [a \in listed |->
            IF type \in {"REVENUE", "LIABILITY", "EQUITY"}
            THEN credits(a) - debits(a) ELSE debits(a) - credits(a)]

\* orderBy: [{journalEntry: {date: 'asc'}}, {journalEntry: {entryNumber: 'asc'}}];
\* rows that tie on both come in storage order.
RowBefore(r, q) ==
    LET key(x) == <<journalEntry[x[1]].date, journalEntry[x[1]].entryNumber, x[1], x[2]>>
        less[i \in 1..5] ==
            IF i = 5 THEN TRUE
            ELSE IF key(r)[i] # key(q)[i] THEN key(r)[i] < key(q)[i]
            ELSE less[i + 1]
    IN  less[1]

RECURSIVE OrderedRows(_)
OrderedRows(rows) ==
    IF rows = {} THEN <<>>
    ELSE LET first == CHOOSE r \in rows : \A q \in rows : RowBefore(r, q)
         IN  <<first>> \o OrderedRows(rows \ {first})

\* lines.map(line => {runningBalance += ...; return {..., debit, credit, balance: runningBalance}})
RECURSIVE Transactions(_, _, _)
Transactions(ordered, runningBalance, isDebitNormal) ==
    IF ordered = <<>> THEN <<>>
    ELSE LET r == Head(ordered)
             debit == journalLine[r[1]][r[2]].debit
             credit == journalLine[r[1]][r[2]].credit
             balance == IF isDebitNormal THEN runningBalance + debit - credit
                        ELSE runningBalance + credit - debit
         IN  <<[date |-> journalEntry[r[1]].date,
                entryNumber |-> journalEntry[r[1]].entryNumber,
                debit |-> debit, credit |-> credit, balance |-> balance]>>
             \o Transactions(Tail(ordered), balance, isDebitNormal)

getGeneralLedger(companyId, startDate, endDate, accountId) ==
    LET listed == {a \in DOMAIN accounts : /\ accounts[a].companyId = companyId
                                           /\ accounts[a].isActive
                                           /\ accountId # NoAccount => a = accountId}
        ledger == [a \in listed |->
            LET openingBalance == calculateAccountBalanceAsOf(a, accounts[a].type,
                                                              addDays(startDate, -1))
                isDebitNormal == accounts[a].type \in {"ASSET", "EXPENSE"}
                transactions == Transactions(OrderedRows(PostedInRange(a, startDate, endDate)),
                                             openingBalance, isDebitNormal)
            IN  [openingBalance |-> openingBalance,
                 transactions |-> transactions,
                 closingBalance |-> IF transactions = <<>> THEN openingBalance
                                    ELSE transactions[Len(transactions)].balance]]
    IN  [a \in {l \in listed : Len(ledger[l].transactions) > 0 \/ ledger[l].openingBalance # 0}
            |-> ledger[a]]

----------------------------------------------------------------------------
(* Requests *)

\* A debit line of whole cents on the first account and a credit line on the
\* second; the credit exceeds the debit by nothing, by one unit (less than a
\* cent), or by the tolerance.
AccountPairs == {<<"acc1", "acc2">>, <<"acc1", "acc3">>}

Imbalances == {0, 1, Tolerance}

Cents(x) == x * UnitsPerCent

TwoLines == {<<Line(p[1], Cents(x), 0), Line(p[2], 0, Cents(x) + k)>> :
                p \in AccountPairs, x \in 1..MaxAmount, k \in Imbalances}

Malformed == {<<Line("acc1", Cents(1), Cents(1)), Line("acc2", Cents(1), Cents(1))>>,
              <<Line("acc1", Cents(1), 0), Line("acc2", 0, Cents(1)), Line("acc2", 0, 0)>>}

LineInputs == TwoLines \cup Malformed

UpdateInputs == [date : {NoDate} \cup Dates, lines : {NoLines} \cup LineInputs]

TransactionSources == {"INVOICE"}

ActingCompanies == {"T1"}

Procs == {"p1", "p2"}

\* No aging report has been asked for.
NoReport == [pc |-> "none", daysOverdue |-> 0, periods |-> <<>>, buckets |-> <<>>,
             bucketIndex |-> 0]

\* A request that has not been made: no call frame.
Idle == [pc |-> "idle", op |-> "none", companyId |-> "T1", date |-> NoDate,
         source |-> "MANUAL", lines |-> NoLines, entryId |-> NoEntry,
         entryNumber |-> 0, error |-> "none"]

\* Charts of accounts as createAccount leaves them: acc1 and acc2 belong to
\* T1, acc3 to T2; one chart has the opening balance of the specification's
\* scenario on its asset account, the other opens every account at zero.
Chart(type1, opening1, type2) ==
    [a \in AccountIds |->
        [(IF a = "acc1" THEN Account("T1", type1, opening1)
          ELSE IF a = "acc2" THEN Account("T1", type2, 0)
          ELSE Account("T2", "EQUITY", 0)) EXCEPT !.code = a]]

Charts == {Chart("ASSET", OpeningCash, "REVENUE"), Chart("EXPENSE", 0, "LIABILITY")}

Init ==
    /\ accounts \in Charts
    /\ journalEntry = <<>>
    /\ journalLine = <<>>
    /\ lastOp = "none"
    /\ lastError = "none"
    /\ uniqueEntryNumber = TRUE
    /\ inflight = [p \in Procs |-> Idle]
    /\ aging = NoReport

Next ==
    \/ \E c \in ActingCompanies, d \in Dates, ls \in LineInputs : createJournalEntry(c, d, ls)
    \/ \E c \in ActingCompanies, d \in Dates, s \in TransactionSources, ls \in LineInputs :
            createFromTransaction(c, d, s, ls)
    \/ \E c \in ActingCompanies, id \in 1..MaxEntries, input \in UpdateInputs :
            updateJournalEntry(c, id, input)
    \/ \E c \in ActingCompanies, id \in 1..MaxEntries : voidJournalEntry(c, id)
    \/ \E c \in ActingCompanies, id \in 1..MaxEntries, d \in Dates : reverseJournalEntry(c, id, d)

Spec == Init /\ [][Next]_vars

----------------------------------------------------------------------------
(* The ledger of a tenant whose expense account was opened with a balance *)

InitIncome ==
    /\ accounts = Chart("EXPENSE", OpeningCash, "REVENUE")
    /\ journalEntry = <<>>
    /\ journalLine = <<>>
    /\ lastOp = "none"
    /\ lastError = "none"
    /\ uniqueEntryNumber = TRUE
    /\ inflight = [p \in Procs |-> Idle]
    /\ aging = NoReport

SpecIncome == InitIncome /\ [][Next]_vars

----------------------------------------------------------------------------
(* The ledger with the chart of accounts changing under it *)

NextChart ==
    \/ \E c \in ActingCompanies, d \in Dates, ls \in LineInputs : createJournalEntry(c, d, ls)
    \/ \E c \in ActingCompanies, d \in Dates, s \in TransactionSources, ls \in TwoLines :
            createFromTransaction(c, d, s, ls)
    \/ \E c \in ActingCompanies, id \in 1..MaxEntries, ls \in TwoLines :
            updateJournalEntry(c, id, [date |-> NoDate, lines |-> ls])
    \/ \E c \in ActingCompanies, id \in 1..MaxEntries : voidJournalEntry(c, id)
    \/ \E c \in ActingCompanies, id \in 1..MaxEntries, d \in Dates : reverseJournalEntry(c, id, d)
    \/ \E c \in ActingCompanies, a \in AccountIds : deactivateAccount(c, a)

SpecChart == Init /\ [][NextChart]_vars

----------------------------------------------------------------------------
(* Concurrent requests: each store call of a handler is one step *)

ConcLineInputs ==
    {<<Line("acc1", Cents(MaxAmount), 0), Line("acc2", 0, Cents(MaxAmount))>>,
     <<Line("acc2", Cents(1), 0), Line("acc1", 0, Cents(1)),
       Line("acc1", Cents(1), 0), Line("acc2", 0, Cents(1))>>}

Frame(p) == inflight[p]

Goto(p, pc) == inflight' = [inflight EXCEPT ![p].pc = pc]

Throw(p, error) == inflight' = [inflight EXCEPT ![p].pc = "done", ![p].error = error]

\* A handler is entered; validateDoubleEntry runs before the first await.
Call(p, op, companyId, entryId, lines) ==
    LET frame == [Idle EXCEPT !.op = op, !.companyId = companyId, !.date = MaxDate,
                              !.source = IF op = "createFromTransaction" THEN "INVOICE" ELSE "MANUAL",
                              !.lines = lines, !.entryId = entryId]
        doubleEntry == validateDoubleEntry(lines)
    IN  /\ Frame(p).pc \in {"idle", "done"}
        /\ UNCHANGED <<accounts, journalEntry, journalLine, lastOp, lastError, uniqueEntryNumber, aging>>
        /\ inflight' = [inflight EXCEPT ![p] =
              IF op \in {"createJournalEntry", "createFromTransaction"} /\ doubleEntry # "none"
              THEN [frame EXCEPT !.pc = "done", !.error = doubleEntry]
              ELSE [frame EXCEPT !.pc =
                      IF op = "createJournalEntry" THEN "validateAccounts"
                      ELSE IF op = "createFromTransaction" THEN "readLast"
                      ELSE "load"]]

\* await prisma.journalEntry.findFirst({where: {id: entryId, companyId}, ...})
StepLoad(p) ==
    LET f == Frame(p)
        id == FindEntry(f.companyId, f.entryId)
    IN  /\ f.pc = "load"
        /\ UNCHANGED <<accounts, journalEntry, journalLine, lastOp, lastError, uniqueEntryNumber, aging>>
        /\ IF id = NoEntry THEN Throw(p, "JournalEntryNotFound")
           ELSE IF f.op = "reverseJournalEntry"
           THEN inflight' = [inflight EXCEPT ![p].pc = "readLast", ![p].lines = journalLine[id]]
           ELSE IF ~IsManual(journalEntry[id].source) THEN Throw(p, "OnlyManualEdited")
           ELSE IF validateDoubleEntry(f.lines) # "none" THEN Throw(p, validateDoubleEntry(f.lines))
           ELSE Goto(p, "validateAccounts")

\* await this.validateAccounts(companyId, lines)
StepValidateAccounts(p) ==
    LET f == Frame(p)
        known == validateAccounts(f.companyId, f.lines)
    IN  /\ f.pc = "validateAccounts"
        /\ UNCHANGED <<accounts, journalEntry, journalLine, lastOp, lastError, uniqueEntryNumber, aging>>
        /\ IF known # "none" THEN Throw(p, known)
           ELSE IF f.op = "updateJournalEntry" THEN Goto(p, "update")
           ELSE Goto(p, "readLast")

\* await prisma.journalEntry.findFirst({where: {companyId}, orderBy: {entryNumber: 'desc'}})
StepReadLast(p) ==
    LET f == Frame(p)
    IN  /\ f.pc = "readLast"
        /\ UNCHANGED <<accounts, journalEntry, journalLine, lastOp, lastError, uniqueEntryNumber, aging>>
        /\ inflight' = [inflight EXCEPT ![p].pc = "create",
                                        ![p].entryNumber = NextEntryNumber(f.companyId)]

\* await prisma.journalEntry.create({data: {..., entryNumber, lines: {create}}})
StepCreate(p) ==
    LET f == Frame(p)
        row == IF f.op = "reverseJournalEntry"
               THEN ReversingEntry(f.companyId, f.entryNumber, f.date, f.entryId)
               ELSE NewEntry(f.companyId, f.entryNumber, f.date, f.source)
        rows == IF f.op = "reverseJournalEntry" THEN SwapDebitCredit(f.lines)
                ELSE NestedCreate(f.lines)
    IN  /\ f.pc = "create"
        /\ UNCHANGED <<accounts, lastOp, lastError, uniqueEntryNumber, aging>>
        /\ IF CreateError(row, rows) # "none"
           THEN Throw(p, CreateError(row, rows)) /\ UNCHANGED <<journalEntry, journalLine>>
           ELSE /\ Len(journalEntry) < MaxEntries
                /\ InsertEntry(row, rows)
                /\ inflight' = [inflight EXCEPT ![p].pc = "done",
                                                ![p].entryId = Len(journalEntry) + 1]

\* await prisma.journalEntry.update({where: {id}, data: {lines: {deleteMany: {}, create}}})
StepUpdate(p) ==
    LET f == Frame(p)
    IN  /\ f.pc = "update"
        /\ UNCHANGED <<accounts, journalEntry, lastOp, lastError, uniqueEntryNumber, aging>>
        /\ IF MissingAccount(f.lines)
           THEN Throw(p, "ForeignKeyViolation") /\ UNCHANGED journalLine
           ELSE /\ journalLine' = [journalLine EXCEPT ![f.entryId] = ReplaceLines(@, f.lines)]
                /\ Goto(p, "done")

InitConc ==
    /\ accounts \in Charts
    /\ journalEntry = <<>>
    /\ journalLine = <<>>
    /\ lastOp = "none"
    /\ lastError = "none"
    /\ uniqueEntryNumber \in BOOLEAN
    /\ inflight = [p \in Procs |-> Idle]
    /\ aging = NoReport

NextConc ==
    \/ \E p \in Procs, c \in ActingCompanies, ls \in ConcLineInputs :
            Call(p, "createJournalEntry", c, NoEntry, ls)
    \/ \E p \in Procs, c \in ActingCompanies, ls \in ConcLineInputs :
            Call(p, "createFromTransaction", c, NoEntry, ls)
    \/ \E p \in Procs, c \in ActingCompanies, id \in 1..MaxEntries :
            Call(p, "reverseJournalEntry", c, id, NoLines)
    \/ \E p \in Procs, c \in ActingCompanies, id \in 1..MaxEntries, ls \in ConcLineInputs :
            Call(p, "updateJournalEntry", c, id, ls)
    \/ \E p \in Procs : StepLoad(p)
    \/ \E p \in Procs : StepValidateAccounts(p)
    \/ \E p \in Procs : StepReadLast(p)
    \/ \E p \in Procs : StepCreate(p)
    \/ \E p \in Procs : StepUpdate(p)

SpecConc == InitConc /\ [][NextConc]_vars

----------------------------------------------------------------------------
(* Two tenants on one store, one request at a time *)

\* Request bodies that pass journalLineSchema: T1 posts between its two
\* accounts, T2 debits and credits its single account.
TenantLineInputs ==
    {<<Line(p[1], Cents(1), 0), Line(p[2], 0, Cents(1))>> :
        p \in {<<"acc1", "acc2">>, <<"acc3", "acc3">>}}

\* Lines handed to createFromTransaction by a collaborator: JournalLineInput
\* is a pair of numbers, no schema is applied on this path.
CollaboratorLineInputs ==
    TenantLineInputs \cup {<<Line("acc1", -Cents(1), 0), Line("acc2", Cents(1), 0)>>}

\* Bodies of an update: as above, or lines that the checks of post refuse
\* (both sides, neither side, off by the tolerance).
EditLineInputs ==
    TenantLineInputs \cup Malformed
        \cup {<<Line("acc1", Cents(1), 0), Line("acc2", 0, Cents(1) + Tolerance)>>}

EditInputs == [date : {1}, lines : {NoLines} \cup EditLineInputs]

NextTenants ==
    \/ \E c \in Companies, ls \in TenantLineInputs : createJournalEntry(c, MaxDate, ls)
    \/ \E c \in Companies, s \in TransactionSources, ls \in CollaboratorLineInputs :
            createFromTransaction(c, MaxDate, s, ls)
    \/ \E c \in Companies, id \in 1..MaxEntries, input \in EditInputs :
            updateJournalEntry(c, id, input)
    \/ \E c \in Companies, id \in 1..MaxEntries : voidJournalEntry(c, id)
    \/ \E c \in Companies, id \in 1..MaxEntries : reverseJournalEntry(c, id, MaxDate)
    \/ \E c \in Companies, id \in 1..(MaxEntries + 1) : getJournalEntry(c, id)

SpecTenants == Init /\ [][NextTenants]_vars

----------------------------------------------------------------------------
(* The chart of accounts of two tenants, built from nothing *)

AccountKinds == {[type |-> "ASSET", subType |-> "CASH"],
                 [type |-> "EQUITY", subType |-> "OWNERS_EQUITY"]}

AccountCodes == {"1000", "1100", "1200"}

\* Bodies of a creation by the acting tenant: an asset under any code, or an
\* equity account under the last code, below any parent or none.
CreateAccountInputs ==
    {[code |-> k, type |-> t.type, subType |-> t.subType, parentId |-> p] :
        k \in AccountCodes, t \in AccountKinds, p \in {NoParent} \cup ChartAccountIds}
      \ {x \in [code : AccountCodes, type : {"EQUITY"}, subType : {"OWNERS_EQUITY"},
                 parentId : {NoParent} \cup ChartAccountIds] : x.code # "1200"}

\* The other tenant creates top-level assets only.
OtherTenantAccountInputs ==
    {x \in CreateAccountInputs : x.type = "ASSET" /\ x.code = "1000" /\ x.parentId = NoParent}

\* Bodies of an update: a new parent (with or without a new code), a new
\* code alone, or a new activation state alone.
UpdateAccountInputs ==
    [code : {Undefined, "1100"}, parentId : ChartAccountIds, isActive : {Undefined}]
        \cup [code : {Undefined, "1100"}, parentId : {Undefined, NoParent}, isActive : {Undefined}]
        \cup [code : {Undefined}, parentId : {Undefined}, isActive : {"false"}]

SubTypes == {"CASH", "OWNERS_EQUITY", "OTHER_ASSET"}

InitAccounts ==
    /\ accounts = [a \in {} |-> Account("T1", "ASSET", 0)]
    /\ journalEntry = <<>>
    /\ journalLine = <<>>
    /\ lastOp = "none"
    /\ lastError = "none"
    /\ uniqueEntryNumber = TRUE
    /\ inflight = [p \in Procs |-> Idle]
    /\ aging = NoReport

NextAccounts ==
    \/ \E c \in ActingCompanies, input \in CreateAccountInputs : createAccount(c, input)
    \/ \E c \in Companies \ ActingCompanies, input \in OtherTenantAccountInputs :
            createAccount(c, input)
    \/ \E c \in ActingCompanies, a \in ChartAccountIds, input \in UpdateAccountInputs :
            updateAccount(c, a, input)
    \/ \E c \in ActingCompanies, a \in ChartAccountIds : deactivateAccount(c, a)
    \/ \E c \in Companies : importDefaultChart(c)

SpecAccounts == InitAccounts /\ [][NextAccounts]_vars

----------------------------------------------------------------------------
(* Deactivation racing with the journal: each store call is one step *)

\* The call frame of deactivateAccount(companyId, accountId); hasTransactions
\* is what journalLine.findFirst returned.
NoDeactivate == [pc |-> "idle", op |-> "deactivateAccount", companyId |-> "T1",
                 accountId |-> NoParent, hasTransactions |-> FALSE, error |-> "none"]

CallDeactivate(p, companyId, accountId) ==
    /\ Frame(p).pc \in {"idle", "done"}
    /\ inflight' = [inflight EXCEPT ![p] =
            [NoDeactivate EXCEPT !.pc = "findAccount", !.companyId = companyId,
                                 !.accountId = accountId]]
    /\ UNCHANGED <<accounts, journalEntry, journalLine, lastOp, lastError, uniqueEntryNumber,
                   aging>>

\* await prisma.account.findFirst({where: {id: accountId, companyId}})
StepDeactivateFind(p) ==
    LET f == Frame(p)
    IN  /\ f.pc = "findAccount" /\ f.op = "deactivateAccount"
        /\ UNCHANGED <<accounts, journalEntry, journalLine, lastOp, lastError, uniqueEntryNumber,
                       aging>>
        /\ IF ~FindAccount(f.companyId, f.accountId) THEN Throw(p, "AccountNotFound")
           ELSE IF accounts[f.accountId].isSystemAccount
           THEN Throw(p, "CannotDeactivateSystemAccount")
           ELSE Goto(p, "findLine")

\* await prisma.journalLine.findFirst({where: {accountId}})
StepDeactivateLines(p) ==
    LET f == Frame(p)
    IN  /\ f.pc = "findLine"
        /\ UNCHANGED <<accounts, journalEntry, journalLine, lastOp, lastError, uniqueEntryNumber,
                       aging>>
        /\ inflight' = [inflight EXCEPT ![p].pc = "write",
                                        ![p].hasTransactions = HasTransactions(f.accountId)]

\* await prisma.account.update({data: {isActive: false}}) or await
\* prisma.account.delete; the store refuses to delete a row that a journal
\* line refers to.
StepDeactivateWrite(p) ==
    LET f == Frame(p)
    IN  /\ f.pc = "write"
        /\ UNCHANGED <<journalEntry, journalLine, lastOp, lastError, uniqueEntryNumber, aging>>
        /\ IF f.accountId \notin DOMAIN accounts
           THEN Throw(p, "RecordNotFound") /\ UNCHANGED accounts
           ELSE IF f.hasTransactions
           THEN /\ accounts' = [accounts EXCEPT ![f.accountId].isActive = FALSE]
                /\ Goto(p, "done")
           ELSE IF HasTransactions(f.accountId)
           THEN Throw(p, "ForeignKeyViolation") /\ UNCHANGED accounts
           ELSE /\ accounts' = [a \in DOMAIN accounts \ {f.accountId} |-> accounts[a]]
                /\ Goto(p, "done")

JournalFrame(p) == Frame(p).op # "deactivateAccount"

\* The request body of the posts and updates that race with a deactivation.
RaceLineInputs == {<<Line("acc1", Cents(1), 0), Line("acc2", 0, Cents(1))>>}

NextDeactivate ==
    \/ \E p \in Procs, c \in ActingCompanies, ls \in RaceLineInputs :
            Call(p, "createJournalEntry", c, NoEntry, ls)
    \/ \E p \in Procs, c \in ActingCompanies, id \in 1..MaxEntries :
            Call(p, "reverseJournalEntry", c, id, NoLines)
    \/ \E p \in Procs, c \in ActingCompanies, id \in 1..MaxEntries, ls \in RaceLineInputs :
            Call(p, "updateJournalEntry", c, id, ls)
    \/ \E p \in Procs, c \in ActingCompanies, a \in AccountIds : CallDeactivate(p, c, a)
    \/ \E p \in Procs : JournalFrame(p) /\ StepLoad(p)
    \/ \E p \in Procs : JournalFrame(p) /\ StepValidateAccounts(p)
    \/ \E p \in Procs : JournalFrame(p) /\ StepReadLast(p)
    \/ \E p \in Procs : JournalFrame(p) /\ StepCreate(p)
    \/ \E p \in Procs : JournalFrame(p) /\ StepUpdate(p)
    \/ \E p \in Procs : StepDeactivateFind(p)
    \/ \E p \in Procs : StepDeactivateLines(p)
    \/ \E p \in Procs : ~JournalFrame(p) /\ StepDeactivateWrite(p)

SpecDeactivate == Init /\ [][NextDeactivate]_vars

----------------------------------------------------------------------------
(* Concurrent reparenting: each store call of updateAccount is one step *)

\* The call frame of updateAccount(companyId, accountId, {parentId}):
\* accountType is account.type as read, nextParentId is currentParent.parentId
\* as read, walked counts the findUnique calls of the walk.
NoUpdate == [pc |-> "idle", companyId |-> "T1", accountId |-> NoParent, parentId |-> NoParent,
             accountType |-> "ASSET", nextParentId |-> NoParent, walked |-> 0,
             error |-> "none"]

Finished(p, error) ==
    inflight' = [inflight EXCEPT ![p] = [NoUpdate EXCEPT !.pc = "done", !.error = error]]

CallUpdateAccount(p, companyId, accountId, parentId) ==
    /\ inflight[p].pc \in {"idle", "done"}
    /\ inflight' = [inflight EXCEPT ![p] =
            [NoUpdate EXCEPT !.pc = "findAccount", !.companyId = companyId,
                             !.accountId = accountId, !.parentId = parentId]]
    /\ UNCHANGED <<accounts, journalEntry, journalLine, lastOp, lastError, uniqueEntryNumber,
                   aging>>

\* await prisma.account.findFirst({where: {id: accountId, companyId}}), then
\* the checks made before the next await.
StepFindAccount(p) ==
    LET f == inflight[p]
    IN  /\ f.pc = "findAccount"
        /\ UNCHANGED <<accounts, journalEntry, journalLine, lastOp, lastError, uniqueEntryNumber,
                       aging>>
        /\ IF ~FindAccount(f.companyId, f.accountId) THEN Finished(p, "AccountNotFound")
           ELSE IF f.parentId = f.accountId THEN Finished(p, "OwnParent")
           ELSE inflight' = [inflight EXCEPT ![p].pc = "findParent",
                                             ![p].accountType = accounts[f.accountId].type]

\* await prisma.account.findFirst({where: {id: input.parentId, companyId}}),
\* the type check, and let currentParent = parent.
StepFindParent(p) ==
    LET f == inflight[p]
    IN  /\ f.pc = "findParent"
        /\ UNCHANGED <<accounts, journalEntry, journalLine, lastOp, lastError, uniqueEntryNumber,
                       aging>>
        /\ IF ~FindAccount(f.companyId, f.parentId) THEN Finished(p, "ParentNotFound")
           ELSE IF accounts[f.parentId].type # f.accountType
           THEN Finished(p, "ParentTypeMismatch")
           ELSE inflight' = [inflight EXCEPT ![p].pc = "walk",
                                             ![p].nextParentId = accounts[f.parentId].parentId]

\* One turn of while (currentParent.parentId) {...}: the test against
\* accountId, then await prisma.account.findUnique({where: {id:
\* currentParent.parentId}}). The loop has no bound of its own; the count of
\* turns stops at MaxWalk.
StepWalk(p) ==
    LET f == inflight[p]
    IN  /\ f.pc = "walk"
        /\ UNCHANGED <<accounts, journalEntry, journalLine, lastOp, lastError, uniqueEntryNumber,
                       aging>>
        /\ IF f.nextParentId = NoParent THEN inflight' = [inflight EXCEPT ![p].pc = "update"]
           ELSE IF f.nextParentId = f.accountId THEN Finished(p, "CircularParent")
           ELSE IF f.nextParentId \notin DOMAIN accounts
           THEN inflight' = [inflight EXCEPT ![p].pc = "update"]
           ELSE /\ f.walked < MaxWalk
                /\ inflight' = [inflight EXCEPT
                        ![p].nextParentId = accounts[f.nextParentId].parentId,
                        ![p].walked = f.walked + 1]

\* await prisma.account.update({where: {id: accountId}, data: input})
StepUpdateAccount(p) ==
    LET f == inflight[p]
    IN  /\ f.pc = "update"
        /\ UNCHANGED <<journalEntry, journalLine, lastOp, lastError, uniqueEntryNumber, aging>>
        /\ IF f.accountId \notin DOMAIN accounts
           THEN Finished(p, "RecordNotFound") /\ UNCHANGED accounts
           ELSE /\ accounts' = [accounts EXCEPT ![f.accountId].parentId = f.parentId]
                /\ Finished(p, "none")

\* Asset accounts without parents: two of the acting tenant and one of the
\* other tenant, or three of the acting tenant.
ReparentCharts ==
    {Chart("ASSET", 0, "ASSET"),
     [a \in AccountIds |-> [Account("T1", "ASSET", 0) EXCEPT !.code = a]]}

InitReparent ==
    /\ accounts \in ReparentCharts
    /\ journalEntry = <<>>
    /\ journalLine = <<>>
    /\ lastOp = "none"
    /\ lastError = "none"
    /\ uniqueEntryNumber = TRUE
    /\ inflight = [p \in Procs |-> NoUpdate]
    /\ aging = NoReport

NextReparent ==
    \/ \E p \in Procs, c \in ActingCompanies, a \in AccountIds, parent \in AccountIds :
            CallUpdateAccount(p, c, a, parent)
    \/ \E p \in Procs : StepFindAccount(p)
    \/ \E p \in Procs : StepFindParent(p)
    \/ \E p \in Procs : StepWalk(p)
    \/ \E p \in Procs : StepUpdateAccount(p)

SpecReparent == InitReparent /\ [][NextReparent]_vars

----------------------------------------------------------------------------
(* ReportService: aging buckets *)

\* {period: 'Current'}, {period: `${start}-${end} days`}, {period: `Over ${last} days`}
CurrentBucket == [period |-> "Current"]

RangeBucket(start, end) == [period |-> "start-end days", start |-> start, end |-> end]

OverBucket(last) == [period |-> "Over last days", last |-> last]

\* periods[periods.length - 1] of an empty array is undefined.
buildAgingBuckets(periods) ==
    <<CurrentBucket>>
        \o [i \in 1..Len(periods) |->
                RangeBucket(IF i = 1 THEN 1 ELSE periods[i - 1] + 1, periods[i])]
        \o <<OverBucket(IF periods = <<>> THEN Undefined ELSE periods[Len(periods)])>>

\* for (let i = 0; i < periods.length; i++) if (daysOverdue <= periods[i]) return i + 1;
\* return periods.length + 1; here i counts from 1.
RECURSIVE BucketFromExclusive(_, _, _)
BucketFromExclusive(daysOverdue, periods, i) ==
    IF i > Len(periods) THEN Len(periods) + 1
    ELSE IF daysOverdue < periods[i] THEN i
    ELSE BucketFromExclusive(daysOverdue, periods, i + 1)

RECURSIVE BucketFrom(_, _, _)
BucketFrom(daysOverdue, periods, i) ==
    IF i > Len(periods) THEN Len(periods) + 1
    ELSE IF daysOverdue <= periods[i] THEN i
    ELSE BucketFrom(daysOverdue, periods, i + 1)

getBucketIndexExclusive(daysOverdue, periods) ==
    IF daysOverdue <= 0 THEN 0 ELSE BucketFromExclusive(daysOverdue, periods, 1)

getBucketIndex(daysOverdue, periods) ==
    IF daysOverdue <= 0 THEN 0 ELSE BucketFrom(daysOverdue, periods, 1)

\* Period boundaries are integers; agingReportSchema asks for positive ones,
\* the service takes any number[].
PeriodValues == (-1)..MaxPeriod

RECURSIVE Ascending(_)
Ascending(set) ==
    IF set = {} THEN <<>>
    ELSE LET least == CHOOSE x \in set : \A y \in set : x <= y
         IN  <<least>> \o Ascending(set \ {least})

\* The strictly increasing lists of at most MaxPeriods boundaries.
PeriodLists == {Ascending(set) : set \in {x \in SUBSET PeriodValues : Cardinality(x) <= MaxPeriods}}

DaysOverdue == (-2)..(MaxPeriod + 1)

\* const buckets = this.buildAgingBuckets(agingPeriods)
BuildBuckets ==
    /\ aging.pc = "asked"
    /\ aging' = [aging EXCEPT !.pc = "built", !.buckets = buildAgingBuckets(aging.periods)]
    /\ UNCHANGED <<accounts, journalEntry, journalLine, lastOp, lastError, uniqueEntryNumber,
                   inflight>>

\* const bucketIndex = this.getBucketIndex(daysOverdue, agingPeriods)
AssignBucket ==
    /\ aging.pc = "built"
    /\ aging' = [aging EXCEPT !.pc = "assigned",
                              !.bucketIndex = getBucketIndex(aging.daysOverdue, aging.periods)]
    /\ UNCHANGED <<accounts, journalEntry, journalLine, lastOp, lastError, uniqueEntryNumber,
                   inflight>>

InitAging ==
    /\ accounts \in Charts
    /\ journalEntry = <<>>
    /\ journalLine = <<>>
    /\ lastOp = "none"
    /\ lastError = "none"
    /\ uniqueEntryNumber = TRUE
    /\ inflight = [p \in Procs |-> Idle]
    /\ aging \in {[NoReport EXCEPT !.pc = "asked", !.daysOverdue = d, !.periods = ps] :
                    d \in DaysOverdue, ps \in PeriodLists}

NextAging == BuildBuckets \/ AssignBucket

SpecAging == InitAging /\ [][NextAging]_vars

----------------------------------------------------------------------------
(* Error taxonomy *)

BadRequestErrors == {"DebitsMustEqualCredits", "BothDebitAndCredit", "NeitherDebitNorCredit",
                     "AccountsNotFound", "AccountInactive", "OnlyManualEdited",
                     "OnlyManualVoided", "CannotDeactivateSystemAccount",
                     "ParentNotFound", "ParentTypeMismatch", "OwnParent", "CircularParent",
                     "CannotModifySystemAccount", "CompanyAlreadyHasAccounts"}

NotFoundErrors == {"JournalEntryNotFound", "AccountNotFound"}

ConflictErrors == {"AccountCodeExists"}

----------------------------------------------------------------------------
(* Properties *)

EntryImbalance(e) == SumField(journalLine[e], "debit") - SumField(journalLine[e], "credit")

Entries == 1..Len(journalEntry)

\* C1: in every reachable state, every journal entry with isPosted = true has
\* |sum(debit) - sum(credit)| < 0.01 over its own lines.
C1_PostedEntriesBalanced ==
    \A e \in Entries : journalEntry[e].isPosted => Abs(EntryImbalance(e)) < Tolerance

\* A posted reversing entry next to a posted original, both off balance by
\* less than the tolerance.
C1_Witness ==
    \E e \in Entries, r \in Entries :
        /\ journalEntry[r].isReversing /\ journalEntry[r].reversedEntryId = e
        /\ journalEntry[e].isPosted /\ journalEntry[r].isPosted
        /\ EntryImbalance(e) # 0 /\ EntryImbalance(r) # 0

Unbalanced(lines) == Abs(SumField(lines, "debit") - SumField(lines, "credit")) >= Tolerance

\* C3: a post (either entry point) whose lines have |sum(debit) - sum(credit)| >= 0.01
\* fails with a BadRequest error and leaves the entries, the lines and the
\* tenant's next entry number as they were.
C3_UnbalancedPostPersistsNothing ==
    [][lastOp' \in {"createJournalEntry", "createFromTransaction"} =>
        \A c \in ActingCompanies, d \in Dates, ls \in {x \in LineInputs : Unbalanced(x)} :
            (\/ createJournalEntry(c, d, ls)
             \/ \E s \in TransactionSources : createFromTransaction(c, d, s, ls))
            => /\ lastError' \in BadRequestErrors
               /\ UNCHANGED <<journalEntry, journalLine>>
               /\ NextEntryNumber(c)' = NextEntryNumber(c)]_vars

\* An unbalanced post was rejected while the journal already held an entry.
C3_Witness ==
    /\ lastOp \in {"createJournalEntry", "createFromTransaction"}
    /\ lastError = "DebitsMustEqualCredits"
    /\ journalEntry # <<>>

DebitNormal == {"ASSET", "EXPENSE"}
CreditNormal == {"LIABILITY", "EQUITY", "REVENUE"}

\* What one line adds to the balance of an account of the given type.
SignedAmount(type, line) ==
    IF type \in DebitNormal THEN line.debit - line.credit
    ELSE IF type \in CreditNormal THEN line.credit - line.debit
    ELSE 0

\* What the first k lines of entry e add to account a.
RECURSIVE EntryEffectUpTo(_, _, _)
EntryEffectUpTo(e, a, k) ==
    IF k = 0 THEN 0
    ELSE EntryEffectUpTo(e, a, k - 1) +
         (IF journalLine[e][k].accountId = a
          THEN SignedAmount(accounts[a].type, journalLine[e][k]) ELSE 0)

EntryEffect(e, a) == EntryEffectUpTo(e, a, Len(journalLine[e]))

\* What the posted entries 1..n dated d or earlier add to account a.
RECURSIVE PostedEffectUpTo(_, _, _)
PostedEffectUpTo(a, d, n) ==
    IF n = 0 THEN 0
    ELSE PostedEffectUpTo(a, d, n - 1) +
         (IF journalEntry[n].isPosted /\ journalEntry[n].date <= d THEN EntryEffect(n, a) ELSE 0)

\* C5: for every account a and date d, balanceAsOf(a, d) is the opening balance
\* plus the sum, over the lines of a whose entry is posted and dated d or
\* earlier, of debit - credit (ASSET, EXPENSE) or credit - debit (LIABILITY,
\* EQUITY, REVENUE); lines of voided entries add nothing.
C5_BalanceAsOf ==
    \A a \in DOMAIN accounts, d \in 0..MaxDate :
        calculateAccountBalanceAsOf(a, accounts[a].type, d) =
            accounts[a].openingBalance + PostedEffectUpTo(a, d, Len(journalEntry))

\* An account with a line in a voided entry, a line in a posted entry dated d
\* or earlier and a line in a posted entry dated later than d.
C5_Witness ==
    \E a \in DOMAIN accounts, d \in Dates, v \in Entries, e \in Entries :
        /\ ~journalEntry[v].isPosted /\ journalEntry[v].date <= d /\ EntryEffect(v, a) # 0
        /\ journalEntry[e].isPosted /\ EntryEffect(e, a) # 0
        /\ calculateAccountBalanceAsOf(a, accounts[a].type, d) # accounts[a].openingBalance
        /\ calculateAccountBalanceAsOf(a, accounts[a].type, 0) = accounts[a].openingBalance

\* C7: after post(E) and reverse(E, d), with E still posted, every account's
\* balance as of any date from max(E.date, d) on is what it was without E.
C7_ReversalRestoresBalances ==
    [][(lastOp' = "reverseJournalEntry" /\ lastError' = "none") =>
        LET r == Len(journalEntry')
            e == journalEntry'[r].reversedEntryId
        IN  journalEntry[e].isPosted =>
              \A a \in DOMAIN accounts, d \in Dates :
                  d >= Max(journalEntry[e].date, journalEntry'[r].date) =>
                      calculateAccountBalanceAsOf(a, accounts[a].type, d)' =
                          calculateAccountBalanceAsOf(a, accounts[a].type, d) - EntryEffect(e, a)]_vars

\* The scenario of the specification: an entry that moved the balance of an
\* account off its opening balance was reversed, and the balance is the
\* opening balance again.
C7_Witness ==
    /\ lastOp = "reverseJournalEntry" /\ lastError = "none"
    /\ Len(journalEntry) = 2
    /\ journalEntry[2].reversedEntryId = 1
    /\ journalEntry[1].isPosted
    /\ \E a \in DOMAIN accounts :
          /\ EntryEffect(1, a) # 0
          /\ accounts[a].openingBalance # 0
          /\ calculateAccountBalanceAsOf(a, accounts[a].type, MaxDate) = accounts[a].openingBalance

EntryNumbers(companyId) ==
    {journalEntry[e].entryNumber : e \in {x \in Entries : journalEntry[x].companyId = companyId}}

\* C8: reverse(E, d) adds exactly one entry R: new entry number, source MANUAL,
\* isReversing, reversedEntryId = E, date d, one line per line of E on the same
\* account with debit and credit exchanged; every existing entry and line,
\* E included, stays as it was.
C8_ReverseFrame ==
    [][(lastOp' = "reverseJournalEntry" /\ lastError' = "none") =>
        \A c \in ActingCompanies, id \in 1..MaxEntries, d \in Dates :
            reverseJournalEntry(c, id, d) =>
                LET n == Len(journalEntry)
                    R == journalEntry'[n + 1]
                    lines == journalLine'[n + 1]
                IN  /\ Len(journalEntry') = n + 1 /\ Len(journalLine') = n + 1
                    /\ \A e \in 1..n : journalEntry'[e] = journalEntry[e]
                                       /\ journalLine'[e] = journalLine[e]
                    /\ R.companyId = c
                    /\ R.entryNumber \notin EntryNumbers(c)
                    /\ R.source = "MANUAL" /\ R.isReversing /\ R.reversedEntryId = id
                    /\ R.date = d
                    /\ Len(lines) = Len(journalLine[id])
                    /\ \A i \in 1..Len(lines) :
                          /\ lines[i].accountId = journalLine[id][i].accountId
                          /\ lines[i].debit = journalLine[id][i].credit
                          /\ lines[i].credit = journalLine[id][i].debit
                    /\ accounts' = accounts]_vars

\* A voided INVOICE-sourced entry was reversed.
C8_Witness ==
    /\ lastOp = "reverseJournalEntry" /\ lastError = "none"
    /\ Len(journalEntry) = 2
    /\ journalEntry[2].isReversing /\ journalEntry[2].reversedEntryId = 1
    /\ journalEntry[1].source # "MANUAL"
    /\ journalEntry[2].date < journalEntry[1].date

\* Some line is on an account that is not the company's or is not active.
ReferencesBadAccount(companyId, lines) ==
    \E i \in 1..Len(lines) :
        \/ lines[i].accountId \notin DOMAIN accounts
        \/ accounts[lines[i].accountId].companyId # companyId
        \/ ~accounts[lines[i].accountId].isActive

\* C9: a post through either entry point fails with a BadRequest error and
\* persists nothing whenever a line references an account that is not the
\* tenant's or is not active.
C9_BadAccountRejected ==
    [][lastOp' \in {"createJournalEntry", "createFromTransaction"} =>
        \A c \in ActingCompanies, d \in Dates :
          \A ls \in {x \in LineInputs : ReferencesBadAccount(c, x)} :
            (\/ createJournalEntry(c, d, ls)
             \/ \E s \in TransactionSources : createFromTransaction(c, d, s, ls))
            => /\ lastError' \in BadRequestErrors
               /\ UNCHANGED <<journalEntry, journalLine>>]_vars

\* C2: for any interleaving of concurrent post and reverse calls of one tenant,
\* no two journal entries of that tenant carry the same entryNumber.
C2_EntryNumbersUnique ==
    \A e1 \in Entries, e2 \in Entries :
        (e1 # e2 /\ journalEntry[e1].companyId = journalEntry[e2].companyId)
            => journalEntry[e1].entryNumber # journalEntry[e2].entryNumber

\* The complete line sets a request can write: its lines as given, or the
\* loaded lines of an entry with the sides exchanged.
CompleteLineSets ==
    {[i \in 1..Len(ls) |-> ls[i]] : ls \in ConcLineInputs} \cup
    {[i \in 1..Len(ls) |-> Line(ls[i].accountId, ls[i].credit, ls[i].debit)] : ls \in ConcLineInputs} \cup
    {[i \in 1..Len(ls) |-> ls[i]] :
        ls \in {[j \in 1..Len(x) |-> Line(x[j].accountId, x[j].credit, x[j].debit)] :
                    x \in {[k \in 1..Len(y) |-> Line(y[k].accountId, y[k].credit, y[k].debit)] :
                                y \in ConcLineInputs}}}

\* C4: at every step of concurrent post, update-with-lines and reverse calls,
\* what a reader finds in the store is, for every entry, one complete line set
\* of one request: never an entry without its lines, lines without their
\* entry, a strict subset, an empty set or a mix of two requests' lines.
C4_EntryWithAllItsLines ==
    /\ Len(journalLine) = Len(journalEntry)
    /\ \A e \in Entries : journalLine[e] \in CompleteLineSets

\* One request is between its store calls while an entry created by a
\* finished request has had its lines replaced by an update.
C4_Witness ==
    \E p \in Procs, q \in Procs, e \in Entries :
        /\ p # q
        /\ inflight[p].pc \in {"create", "update"}
        /\ inflight[q].pc = "done" /\ inflight[q].op = "updateJournalEntry"
        /\ inflight[q].error = "none" /\ inflight[q].entryId = e
        /\ journalLine[e] = inflight[q].lines
        /\ Len(journalEntry) = MaxEntries

\* The entry number a request is about to write is already taken.
Collides(p) ==
    /\ inflight[p].pc = "create"
    /\ \E e \in Entries :
          /\ journalEntry[e].companyId = inflight[p].companyId
          /\ journalEntry[e].entryNumber = inflight[p].entryNumber

\* C10: a post that collides on the entry number reads the tenant's maximum
\* afresh and tries again; its first collision neither fails the caller nor
\* stores an entry under the taken number.
C10_CollisionRetried ==
    [][\A p \in Procs :
          (Collides(p) /\ inflight'[p] # inflight[p])
              => (inflight'[p].pc = "readLast" /\ UNCHANGED <<journalEntry, journalLine>>)]_vars

ActiveAccounts(companyId) ==
    {a \in DOMAIN accounts : accounts[a].companyId = companyId /\ accounts[a].isActive}

Touches(e, companyId) ==
    \E i \in 1..Len(journalLine[e]) :
        /\ journalLine[e][i].accountId \in DOMAIN accounts
        /\ accounts[journalLine[e][i].accountId].companyId = companyId

\* C6 as stated: getTrialBalance(asOfDate) reports isBalanced for every date,
\* whatever post, update, void, reverse and chart operations came before.
C6_AlwaysBalanced ==
    \A c \in ActingCompanies, d \in Dates : getTrialBalance(c, d).isBalanced

\* Every active account of the company opens at zero, and every posted entry
\* dated d or earlier with a line on an account of the company balances
\* exactly and has all its lines on active accounts of the company.
CleanLedger(c, d) ==
    /\ \A a \in ActiveAccounts(c) : accounts[a].openingBalance = 0
    /\ \A e \in Entries :
          (journalEntry[e].isPosted /\ journalEntry[e].date <= d /\ Touches(e, c)) =>
              /\ EntryImbalance(e) = 0
              /\ \A i \in 1..Len(journalLine[e]) :
                    journalLine[e][i].accountId \in ActiveAccounts(c)

\* C6 (amended): getTrialBalance(asOfDate) reports isBalanced whenever every
\* active account of the tenant has a zero opening balance and every posted
\* entry dated asOfDate or earlier with a line on one of the tenant's accounts
\* has sum(debit) = sum(credit) exactly and all its lines on active accounts
\* of the tenant.
C6_BalancedWhenClean ==
    \A c \in ActingCompanies, d \in Dates : CleanLedger(c, d) => getTrialBalance(c, d).isBalanced

\* A clean ledger in which an account carries a balance against its normal
\* side (the reversal of a voided entry) and the columns are not empty.
C6_Witness ==
    \E c \in ActingCompanies, d \in Dates :
        /\ CleanLedger(c, d)
        /\ getTrialBalance(c, d).totalDebits > 0
        /\ \E a \in ActiveAccounts(c) : calculateAccountBalanceAsOf(a, accounts[a].type, d) < 0
        /\ \E e \in Entries : ~journalEntry[e].isPosted

----------------------------------------------------------------------------
(* C11: entry numbers in sequential execution *)

EntriesOf(companyId) == {i \in 1..Len(journalEntry) : journalEntry[i].companyId = companyId}

MaxNumberOf(companyId) ==
    IF EntriesOf(companyId) = {} THEN 0
    ELSE CHOOSE n \in EntryNumbers(companyId) : \A m \in EntryNumbers(companyId) : m <= n

\* C11: with one request at a time, a created entry gets the tenant's
\* maximum entry number (0 if none) plus one, so the tenant's numbers in
\* creation order are 1, 2, 3, ... with no gap and no reuse; no step removes
\* an entry or changes the number or tenant of an existing one.
C11_SequentialNumbering ==
    [][/\ Len(journalEntry') >= Len(journalEntry)
       /\ Len(journalEntry') <= Len(journalEntry) + 1
       /\ \A i \in 1..Len(journalEntry) :
              /\ journalEntry'[i].entryNumber = journalEntry[i].entryNumber
              /\ journalEntry'[i].companyId = journalEntry[i].companyId
       /\ Len(journalEntry') = Len(journalEntry) + 1 =>
              LET new == journalEntry'[Len(journalEntry')]
              IN  /\ new.entryNumber = MaxNumberOf(new.companyId) + 1
                  /\ \A i \in EntriesOf(new.companyId) :
                         journalEntry[i].entryNumber < new.entryNumber
                  /\ new.entryNumber = Cardinality(EntriesOf(new.companyId)) + 1]_vars

\* Both tenants have posted, and one tenant has posted twice in some run
\* (here: the two tenants each hold an entry, the second just created).
C11_Witness ==
    /\ Len(journalEntry) = 2
    /\ journalEntry[1].companyId # journalEntry[2].companyId
    /\ lastOp \in {"createJournalEntry", "createFromTransaction", "reverseJournalEntry"}
    /\ lastError = "none"

----------------------------------------------------------------------------
(* C12: sides of a persisted line *)

----------------------------------------------------------------------------
(* C13, C14, C15: update and void of one entry *)

\* C13: update of an entry whose source is not MANUAL fails with a BadRequest
\* error and leaves the entry's fields and lines (and every other row) unchanged.
C13_NonManualNotEditable ==
    [][lastOp' = "updateJournalEntry" =>
        \A c \in Companies, id \in 1..MaxEntries, input \in EditInputs :
            (/\ FindEntry(c, id) # NoEntry
             /\ journalEntry[id].source \in JournalSource \ {"MANUAL"}
             /\ updateJournalEntry(c, id, input))
            => /\ lastError' \in BadRequestErrors
               /\ UNCHANGED <<journalEntry, journalLine>>]_vars

\* An update was refused on an INVOICE-sourced entry.
C13_Witness ==
    /\ lastOp = "updateJournalEntry" /\ lastError = "OnlyManualEdited"
    /\ \E e \in Entries : journalEntry[e].source = "INVOICE"

\* Every line has exactly one side above zero.
OneSided(lines) ==
    \A i \in 1..Len(lines) : (lines[i].debit > 0) # (lines[i].credit > 0)

\* C14: a successful update of a MANUAL entry with newLines leaves that entry
\* with exactly newLines, keeps its entryNumber, source, isPosted and tenant,
\* and changes no other entry or its lines; newLines have passed the checks
\* of post (balanced, one-sided, accounts of the tenant and active), and an
\* update whose newLines fail them changes nothing.
C14_UpdateReplacesLines ==
    [][lastOp' = "updateJournalEntry" =>
        \A c \in Companies, id \in 1..MaxEntries :
          \A input \in {x \in EditInputs : x.lines # NoLines} :
            (/\ FindEntry(c, id) # NoEntry
             /\ journalEntry[id].source = "MANUAL"
             /\ updateJournalEntry(c, id, input))
            => LET valid == /\ ~Unbalanced(input.lines)
                            /\ OneSided(input.lines)
                            /\ ~ReferencesBadAccount(c, input.lines)
               IN  IF valid
                   THEN /\ lastError' = "none"
                        /\ Len(journalEntry') = Len(journalEntry)
                        /\ Len(journalLine') = Len(journalLine)
                        /\ journalLine'[id] = input.lines
                        /\ \A e \in Entries \ {id} :
                               /\ journalLine'[e] = journalLine[e]
                               /\ journalEntry'[e] = journalEntry[e]
                        /\ journalEntry'[id].entryNumber = journalEntry[id].entryNumber
                        /\ journalEntry'[id].source = journalEntry[id].source
                        /\ journalEntry'[id].isPosted = journalEntry[id].isPosted
                        /\ journalEntry'[id].companyId = journalEntry[id].companyId
                   ELSE /\ lastError' \in BadRequestErrors
                        /\ UNCHANGED <<journalEntry, journalLine>>]_vars

\* The lines of a reversing entry were replaced: it was created with the
\* sides of the reversed entry exchanged and now debits the same account.
C14_Witness ==
    /\ lastOp = "updateJournalEntry" /\ lastError = "none"
    /\ \E e \in Entries :
           /\ journalEntry[e].isReversing
           /\ journalLine[e][1].debit > 0
           /\ journalLine[journalEntry[e].reversedEntryId][1].debit > 0
           /\ journalLine[e][1].accountId = journalLine[journalEntry[e].reversedEntryId][1].accountId

\* C15: void of a MANUAL entry sets isPosted = false and changes nothing
\* else (the entry, its entryNumber and all its lines stay stored); void of
\* an entry of another source fails with a BadRequest error and changes nothing.
C15_VoidOnlyUnposts ==
    [][lastOp' = "voidJournalEntry" =>
        \A c \in Companies, id \in 1..MaxEntries :
            (voidJournalEntry(c, id) /\ FindEntry(c, id) # NoEntry)
            => /\ journalLine' = journalLine
               /\ accounts' = accounts
               /\ IF journalEntry[id].source = "MANUAL"
                  THEN /\ lastError' = "none"
                       /\ journalEntry' = [journalEntry EXCEPT ![id].isPosted = FALSE]
                  ELSE /\ lastError' \in BadRequestErrors
                       /\ journalEntry' = journalEntry]_vars

\* A MANUAL entry was voided and its lines are still stored.
C15_Witness ==
    /\ lastOp = "voidJournalEntry" /\ lastError = "none"
    /\ \E e \in Entries :
           /\ journalEntry[e].source = "MANUAL"
           /\ ~journalEntry[e].isPosted
           /\ Len(journalLine[e]) >= 2

\* A void was refused on an INVOICE-sourced entry, which is still posted.
C15_WitnessRefused ==
    /\ lastOp = "voidJournalEntry" /\ lastError = "OnlyManualVoided"
    /\ \E e \in Entries : journalEntry[e].source = "INVOICE" /\ journalEntry[e].isPosted

----------------------------------------------------------------------------
(* C16: the balance sheet equation *)

AccountsOfType(companyId, type) ==
    {a \in DOMAIN accounts : accounts[a].companyId = companyId /\ accounts[a].type = type}

\* Cumulative (credit - debit) on REVENUE accounts minus cumulative
\* (debit - credit) on EXPENSE accounts over posted lines dated d or earlier.
EarningsToDate(c, d) ==
    LET effect == [a \in DOMAIN accounts |-> PostedEffectUpTo(a, d, Len(journalEntry))]
    IN  SumOver(AccountsOfType(c, "REVENUE"), effect) - SumOver(AccountsOfType(c, "EXPENSE"), effect)

EveryPostedEntryBalanced ==
    \A e \in Entries : journalEntry[e].isPosted => Abs(EntryImbalance(e)) < Tolerance

\* C16: for every asOfDate, in a state where every posted entry is balanced,
\* getBalanceSheet has totalAssets = totalLiabilities + (sum of EQUITY
\* balances) + retainedEarnings within 0.01, retainedEarnings being the
\* cumulative REVENUE (credit - debit) minus EXPENSE (debit - credit) over
\* posted lines dated asOfDate or earlier.
C16_BalanceSheetEquation ==
    \A c \in ActingCompanies, d \in Dates :
        EveryPostedEntryBalanced =>
            LET sheet == getBalanceSheet(c, d)
            IN  /\ sheet.retainedEarnings = EarningsToDate(c, d)
                /\ Abs(sheet.totalAssets - sheet.totalLiabilitiesAndEquity) < Tolerance

\* The same with every account of the tenant opening at zero and every
\* posted entry balanced exactly, on accounts of the tenant only.
C16_EquationZeroOpenings ==
    \A c \in ActingCompanies, d \in Dates :
        (/\ \A a \in DOMAIN accounts : accounts[a].openingBalance = 0
         /\ \A e \in Entries :
                /\ EntryImbalance(e) = 0
                /\ \A i \in 1..Len(journalLine[e]) :
                       accounts[journalLine[e][i].accountId].companyId = c)
        => LET sheet == getBalanceSheet(c, d)
           IN  Abs(sheet.totalAssets - sheet.totalLiabilitiesAndEquity) < Tolerance

----------------------------------------------------------------------------
(* C17: the general ledger *)

LedgerRanges == {<<start, end>> \in Dates \X Dates : start <= end}

LedgerAccounts == {NoAccount} \cup AccountIds

\* Each running balance is the previous one (the opening balance for the
\* first) plus the sign-adjusted amount of the line.
RunsFrom(account, report) ==
    \A i \in 1..Len(report.transactions) :
        LET previous == IF i = 1 THEN report.openingBalance
                        ELSE report.transactions[i - 1].balance
            line == report.transactions[i]
        IN  line.balance = previous + SignedAmount(accounts[account].type, line)

\* C17: for every account and range [start, end] reported by
\* getGeneralLedger, openingBalance = balanceAsOf(account, start - 1 day),
\* every running balance is the previous balance plus the sign-adjusted
\* amount of its line, and closingBalance = balanceAsOf(account, end).
C17_LedgerClosesAtBalance ==
    \A c \in ActingCompanies, range \in LedgerRanges, only \in LedgerAccounts :
        LET report == getGeneralLedger(c, range[1], range[2], only)
        IN  \A a \in DOMAIN report :
                /\ report[a].openingBalance =
                       calculateAccountBalanceAsOf(a, accounts[a].type, range[1] - TicksPerDay)
                /\ RunsFrom(a, report[a])
                /\ report[a].closingBalance =
                       calculateAccountBalanceAsOf(a, accounts[a].type, range[2])

\* The opening and running balances alone.
C17_LedgerRuns ==
    \A c \in ActingCompanies, range \in LedgerRanges, only \in LedgerAccounts :
        LET report == getGeneralLedger(c, range[1], range[2], only)
        IN  \A a \in DOMAIN report :
                /\ report[a].openingBalance =
                       calculateAccountBalanceAsOf(a, accounts[a].type, range[1] - TicksPerDay)
                /\ RunsFrom(a, report[a])
                /\ report[a].closingBalance =
                       report[a].openingBalance
                         + calculateAccountBalanceAsOf(a, accounts[a].type, range[2])
                         - calculateAccountBalanceAsOf(a, accounts[a].type, range[1] - 1)

----------------------------------------------------------------------------
(* C18: entries that are absent or another tenant's *)

\* No entry has this id, or the entry with this id is another tenant's.
AbsentFor(companyId, entryId) ==
    \/ entryId \notin Entries
    \/ journalEntry[entryId].companyId # companyId

\* C18: getJournalEntry, update, void and reverse called by a tenant with an
\* entryId that does not exist or that is another tenant's fail with the one
\* NotFound error in both cases and change no entry or line of any tenant:
\* reverse creates no entry and uses up no entry number.
C18_AbsentOrForeignNotFound ==
    [][lastOp' \in {"getJournalEntry", "updateJournalEntry", "voidJournalEntry",
                    "reverseJournalEntry"} =>
        \A c \in Companies, id \in 1..(MaxEntries + 1) :
            (/\ AbsentFor(c, id)
             /\ \/ getJournalEntry(c, id)
                \/ \E input \in EditInputs : updateJournalEntry(c, id, input)
                \/ voidJournalEntry(c, id)
                \/ reverseJournalEntry(c, id, MaxDate))
            => /\ lastError' = "JournalEntryNotFound"
               /\ lastError' \in NotFoundErrors
               /\ UNCHANGED <<accounts, journalEntry, journalLine>>
               /\ \A t \in Companies : NextEntryNumber(t)' = NextEntryNumber(t)]_vars

\* A reverse was refused although every entry id it can name is stored: the
\* entry named is another tenant's.
C18_Witness ==
    /\ lastOp = "reverseJournalEntry" /\ lastError = "JournalEntryNotFound"
    /\ Len(journalEntry) = MaxEntries
    /\ \E e1 \in Entries, e2 \in Entries : journalEntry[e1].companyId # journalEntry[e2].companyId

----------------------------------------------------------------------------
(* C19: the parent relation of the chart *)

\* The accounts reached from a by at most n parent links.
RECURSIVE AncestorsWithin(_, _)
AncestorsWithin(a, n) ==
    IF n = 0 \/ a \notin DOMAIN accounts \/ accounts[a].parentId = NoParent THEN {}
    ELSE {accounts[a].parentId} \cup AncestorsWithin(accounts[a].parentId, n - 1)

Ancestors(a) == AncestorsWithin(a, Cardinality(DOMAIN accounts))

ParentRelationSound ==
    \A a \in DOMAIN accounts :
        /\ a \notin Ancestors(a)
        /\ accounts[a].parentId # NoParent =>
              /\ accounts[a].parentId \in DOMAIN accounts
              /\ accounts[accounts[a].parentId].type = accounts[a].type

----------------------------------------------------------------------------
(* C20: system accounts *)

\* C20: for each tenant and subType at most one account has isSystemAccount
\* = true, and it is active, so getSystemAccount(tenant, subType) has one
\* possible result whatever the storage order, and fails with NotFound
\* exactly when the tenant has no system account of that subType.
C20_OneSystemAccountPerSubType ==
    \A c \in Companies, subType \in SubTypes :
        /\ Cardinality(getSystemAccount(c, subType)) <= 1
        /\ \A a \in getSystemAccount(c, subType) : accounts[a].isActive

----------------------------------------------------------------------------
(* C21: system accounts are protected *)

SystemAccounts == {a \in DOMAIN accounts : accounts[a].isSystemAccount}

\* C21: for an account with isSystemAccount = true, an update that carries a
\* code or isActive = false, and a deactivate call, fail with a BadRequest
\* error and leave the chart unchanged; every system account is active, and
\* every step keeps each system account in the chart with its code.
C21_SystemAccountsProtected ==
    /\ [](\A a \in SystemAccounts : accounts[a].isActive)
    /\ [][/\ \A a \in SystemAccounts :
                 a \in DOMAIN accounts' /\ accounts'[a].code = accounts[a].code
          /\ lastOp' \in {"updateAccount", "deactivateAccount"} =>
                \A a \in SystemAccounts :
                    /\ deactivateAccount(accounts[a].companyId, a)
                          => accounts' = accounts /\ lastError' \in BadRequestErrors
                    /\ \A input \in {x \in UpdateAccountInputs : ModifiesKeyProperties(x)} :
                          updateAccount(accounts[a].companyId, a, input)
                          => accounts' = accounts /\ lastError' \in BadRequestErrors]_vars

\* The acting tenant's update of one of its system accounts has just been refused.
C21_Witness ==
    /\ lastOp = "updateAccount" /\ lastError = "CannotModifySystemAccount"
    /\ \E a \in SystemAccounts : accounts[a].companyId \in ActingCompanies

\* The acting tenant's deactivate of one of its system accounts has just been refused.
C21_WitnessDeactivate ==
    /\ lastOp = "deactivateAccount" /\ lastError = "CannotDeactivateSystemAccount"
    /\ \E a \in SystemAccounts : accounts[a].companyId \in ActingCompanies

----------------------------------------------------------------------------
(* C22: deactivation keeps what the journal refers to *)

Referenced(a) == \E r \in LineRows : journalLine[r[1]][r[2]].accountId = a

\* C22: deactivate of a non-system account that some journal line references
\* keeps the account, with isActive = false and nothing else changed, and
\* deactivate removes an account only when no journal line references it;
\* in every state every journal line references an account of the chart.
C22_DeactivateKeepsReferenced ==
    /\ [](\A r \in LineRows : journalLine[r[1]][r[2]].accountId \in DOMAIN accounts)
    /\ [][lastOp' = "deactivateAccount" =>
            \A a \in DOMAIN accounts \ SystemAccounts :
                deactivateAccount(accounts[a].companyId, a) =>
                    /\ Referenced(a) =>
                          /\ lastError' = "none"
                          /\ accounts' = [accounts EXCEPT ![a].isActive = FALSE]
                    /\ a \notin DOMAIN accounts' => ~Referenced(a)
                    /\ (~Referenced(a) /\ lastError' = "none") =>
                          DOMAIN accounts' = DOMAIN accounts \ {a}]_vars

\* One account with lines was switched off and kept, another without lines
\* was removed.
C22_Witness ==
    /\ lastOp = "deactivateAccount" /\ lastError = "none"
    /\ \E a \in DOMAIN accounts : Referenced(a) /\ ~accounts[a].isActive
    /\ \E a \in AccountIds : a \notin DOMAIN accounts

----------------------------------------------------------------------------
(* C23: which rule a post reports *)

\* The error of the first violated rule in the order (a) accounts of the
\* tenant and active, (b) each line one-sided, (c) debits equal credits.
FirstViolatedRule(companyId, lines) ==
    LET both(i) == lines[i].debit > 0 /\ lines[i].credit > 0
        neither(i) == lines[i].debit = 0 /\ lines[i].credit = 0
        bad == {i \in 1..Len(lines) : both(i) \/ neither(i)}
    IN  IF validateAccounts(companyId, lines) # "none" THEN validateAccounts(companyId, lines)
        ELSE IF bad # {}
        THEN IF both(CHOOSE i \in bad : \A j \in bad : i <= j)
             THEN "BothDebitAndCredit" ELSE "NeitherDebitNorCredit"
        ELSE IF Unbalanced(lines) THEN "DebitsMustEqualCredits"
        ELSE "none"

\* C23: a post that violates one or more of the rules (a), (b), (c) is
\* rejected with the error of the first violated rule in that order.
C23_FirstViolatedRuleReported ==
    [][lastOp' = "createJournalEntry" =>
        \A c \in ActingCompanies, d \in Dates, ls \in LineInputs :
            (createJournalEntry(c, d, ls) /\ FirstViolatedRule(c, ls) # "none")
            => lastError' = FirstViolatedRule(c, ls)]_vars

----------------------------------------------------------------------------
(* C24: aging buckets *)

PreviousBoundary(periods, i) == IF i = 1 THEN 0 ELSE periods[i - 1]

\* The statement for one item and one list of boundaries: one bucket, chosen
\* by the boundaries, and labels with the indexing of the bucket index.
PartitionedBy(daysOverdue, periods, bucketIndex, buckets) ==
    LET n == Len(periods)
    IN  /\ bucketIndex \in 0..(n + 1)
        /\ bucketIndex = 0 <=> daysOverdue <= 0
        /\ \A i \in 1..n :
              bucketIndex = i <=>
                  PreviousBoundary(periods, i) < daysOverdue /\ daysOverdue <= periods[i]
        /\ bucketIndex = n + 1 <=>
                  daysOverdue > 0 /\ \A i \in 1..n : daysOverdue > periods[i]
        /\ Len(buckets) = n + 2
        /\ buckets[1] = CurrentBucket
        /\ \A i \in 1..n :
              buckets[i + 1] = RangeBucket(PreviousBoundary(periods, i) + 1, periods[i])
        /\ n > 0 => buckets[n + 2] = OverBucket(periods[n])

AllPositive(periods) == \A i \in 1..Len(periods) : periods[i] > 0

\* C24: for every integer daysOverdue and every strictly increasing list of
\* positive periods, exactly one bucket is picked: 'Current' iff daysOverdue
\* <= 0, the i-th period bucket iff previous boundary < daysOverdue <=
\* periods[i], the overflow bucket iff daysOverdue exceeds every period; the
\* labels of buildAgingBuckets have the indexing of getBucketIndex.
C24_BucketsPartition ==
    (aging.pc = "assigned" /\ AllPositive(aging.periods)) =>
        PartitionedBy(aging.daysOverdue, aging.periods, aging.bucketIndex, aging.buckets)

\* The same for every strictly increasing list of integers.
C24_BucketsPartitionAnyList ==
    aging.pc = "assigned" =>
        PartitionedBy(aging.daysOverdue, aging.periods, aging.bucketIndex, aging.buckets)

\* An item overdue by exactly the second boundary of three was put in the
\* second period bucket.
C24_Witness ==
    /\ aging.pc = "assigned" /\ AllPositive(aging.periods) /\ Len(aging.periods) = 3
    /\ aging.daysOverdue = aging.periods[2]
    /\ aging.bucketIndex = 2
    /\ aging.buckets[aging.bucketIndex + 1] = RangeBucket(aging.periods[1] + 1, aging.periods[2])

----------------------------------------------------------------------------
(* C25: the columns of the trial balance *)

ActiveAccountsOf(c) == {a \in DOMAIN accounts : accounts[a].companyId = c /\ accounts[a].isActive}

\* The column (debit when asked for the debit column) in which the claim
\* puts balance b of an account of the given type, and the amount there.
ExpectedColumn(type, b, debitColumn) ==
    IF b = 0 THEN 0
    ELSE IF (type \in DebitNormal) = (b > 0)
    THEN (IF debitColumn THEN Abs(b) ELSE 0)
    ELSE (IF debitColumn THEN 0 ELSE Abs(b))

\* C25: in getTrialBalance every active account with balance b # 0 is shown
\* with |b| in the column of its normal side when b > 0 and in the other
\* column when b < 0, accounts with b = 0 are omitted, totalDebits and
\* totalCredits are the sums of the two columns, and isBalanced =
\* (|totalDebits - totalCredits| < 0.01).
C25_TrialBalanceColumns ==
    \A c \in ActingCompanies, d \in 0..MaxDate :
        LET tb == getTrialBalance(c, d)
            b == [a \in ActiveAccountsOf(c) |->
                    calculateAccountBalanceAsOf(a, accounts[a].type, d)]
            debit == [a \in ActiveAccountsOf(c) |-> ExpectedColumn(accounts[a].type, b[a], TRUE)]
            credit == [a \in ActiveAccountsOf(c) |-> ExpectedColumn(accounts[a].type, b[a], FALSE)]
        IN  /\ tb.accounts = {a \in ActiveAccountsOf(c) : b[a] # 0}
            /\ \A a \in tb.accounts : tb.debit[a] = debit[a] /\ tb.credit[a] = credit[a]
            /\ tb.totalDebits = SumOver(ActiveAccountsOf(c), debit)
            /\ tb.totalCredits = SumOver(ActiveAccountsOf(c), credit)
            /\ tb.isBalanced = (Abs(tb.totalDebits - tb.totalCredits) < Tolerance)

\* The scenario of the specification: the asset account opened with a balance
\* was debited and the revenue account credited by the same amount; the
\* report shows opening + amount against amount and is not balanced.
C25_Witness ==
    \E c \in ActingCompanies :
        LET tb == getTrialBalance(c, MaxDate)
        IN  /\ tb.accounts = {"acc1", "acc2"}
            /\ tb.totalDebits = OpeningCash + Cents(1)
            /\ tb.totalCredits = Cents(1)
            /\ ~tb.isBalanced

\* A debit-normal account with a negative balance is shown in the credit column.
C25_WitnessReclass ==
    \E c \in ActingCompanies : \E a \in ActiveAccountsOf(c) :
        /\ accounts[a].type \in DebitNormal
        /\ calculateAccountBalanceAsOf(a, accounts[a].type, MaxDate) < 0
        /\ getTrialBalance(c, MaxDate).credit[a] > 0

----------------------------------------------------------------------------
(* C26: balances over a range *)

\* What the posted entries 1..n dated from start to end add to account a.
RECURSIVE PostedEffectInRange(_, _, _, _)
PostedEffectInRange(a, start, end, n) ==
    IF n = 0 THEN 0
    ELSE PostedEffectInRange(a, start, end, n - 1) +
         (IF /\ journalEntry[n].isPosted
             /\ start <= journalEntry[n].date /\ journalEntry[n].date <= end
          THEN EntryEffect(n, a) ELSE 0)

\* C26: for every listed REVENUE or EXPENSE account a and range [start, end],
\* the balance over the range is the sum of credit - debit (REVENUE) or debit
\* - credit (EXPENSE) over the lines of a whose entry is posted and dated
\* start <= date <= end; the opening balance is not part of it.
C26_BalanceOverRange ==
    \A c \in ActingCompanies, type \in {"REVENUE", "EXPENSE"}, start \in 0..MaxDate,
       end \in 0..MaxDate :
        LET balances == getAccountBalances(c, type, start, end)
        IN  /\ DOMAIN balances = {a \in ActiveAccountsOf(c) : accounts[a].type = type}
            /\ \A a \in DOMAIN balances :
                  balances[a] = PostedEffectInRange(a, start, end, Len(journalEntry))

\* An expense account opened with a balance has a posted line before the
\* range and one in it; the balance over the range is the second line alone.
C26_Witness ==
    \E c \in ActingCompanies : \E a \in DOMAIN getAccountBalances(c, "EXPENSE", MaxDate, MaxDate) :
        /\ accounts[a].openingBalance # 0
        /\ \E e \in Entries : /\ journalEntry[e].isPosted /\ journalEntry[e].date < MaxDate
                               /\ EntryEffect(e, a) # 0
        /\ getAccountBalances(c, "EXPENSE", MaxDate, MaxDate)[a] = Cents(1)
        /\ calculateAccountBalanceAsOf(a, "EXPENSE", MaxDate) = OpeningCash + Cents(2)

----------------------------------------------------------------------------
(* C27: reparenting races *)

\* C27: whatever the interleaving of concurrent updates, no account is its
\* own ancestor.
C27_NoCycleUnderConcurrency == \A a \in DOMAIN accounts : a \notin Ancestors(a)

----------------------------------------------------------------------------
(* C28: the walk up the parent chain *)

\* C28: the walk of a reparenting update makes at most N turns, N the number
\* of accounts, whatever the chart.
C28_WalkBounded ==
    \A p \in Procs : inflight[p].walked <= Cardinality(DOMAIN accounts)

----------------------------------------------------------------------------
(* C29: a reversing entry and the entry it reverses *)

\* C29: in every state every entry with isReversing = true has exactly the
\* lines of the entry it references with debit and credit swapped.
C29_ReversalStillMirrors ==
    \A r \in Entries :
        journalEntry[r].isReversing =>
            LET e == journalEntry[r].reversedEntryId
            IN  /\ e \in Entries
                /\ Len(journalLine[r]) = Len(journalLine[e])
                /\ \A i \in 1..Len(journalLine[r]) :
                      /\ journalLine[r][i].accountId = journalLine[e][i].accountId
                      /\ journalLine[r][i].debit = journalLine[e][i].credit
                      /\ journalLine[r][i].credit = journalLine[e][i].debit

----------------------------------------------------------------------------
(* C30: a post, update or reversal racing with deactivate *)

LinesName(lines, a) == \E i \in 1..Len(lines) : lines[i].accountId = a

\* Every journal line names an account of the chart, and every entry has a
\* whole line set of one request.
NoLineLostOrDangling ==
    /\ \A r \in LineRows : journalLine[r[1]][r[2]].accountId \in DOMAIN accounts
    /\ Len(journalLine) = Len(journalEntry)
    /\ \A e \in Entries :
          \E ls \in RaceLineInputs :
              journalLine[e] = NestedCreate(ls) \/ journalLine[e] = SwapDebitCredit(ls)

\* C30: whatever the interleaving of a post, update or reversal that names
\* account A with a deactivate of A, no journal line names a deleted account
\* and no entry has lost lines, and once both requests have returned either
\* the journal request failed or A is kept with isActive = false.
C30_PostOrDeactivateWins ==
    /\ NoLineLostOrDangling
    /\ \A p \in Procs, q \in Procs :
          (/\ inflight[p].pc = "done" /\ inflight[q].pc = "done"
           /\ JournalFrame(p) /\ ~JournalFrame(q)
           /\ inflight[q].error \notin {"AccountNotFound", "CannotDeactivateSystemAccount"}
           /\ inflight[p].error = "none"
           /\ LinesName(inflight[p].lines, inflight[q].accountId))
          => /\ inflight[q].accountId \in DOMAIN accounts
             /\ ~accounts[inflight[q].accountId].isActive

====
